---- MODULE Spec2Model ----
(***************************************************************************)
(* C.A.R.L. (mtgibbs/carl): the HAL 9000 guardrail state machine of        *)
(* src/guardrails/hal.ts and the chat pipeline of src/web/server.ts.       *)
(*                                                                         *)
(* Times are Date.now() readings in milliseconds.  The clock is read by    *)
(* the code, never set by it; it advances in steps of Tick.                *)
(***************************************************************************)
EXTENDS Integers, Sequences, FiniteSets, Bags, TLC

(***************************************************************************)
(* Bounds of the model                                                     *)
(***************************************************************************)
\* granularity of the clock, in ms: the lockout lasts two ticks, the reset
\* window four
Tick == 150000
\* number of clock ticks during which callers still issue calls
MaxTicks == 5

Users == {"test-user", "default-user"}

(***************************************************************************)
(* hal.ts: constants and the RefusalState map                              *)
(***************************************************************************)
\* null of `lockedUntil: number | null`; Date.now() is never negative
Null == 0 - 1

LOCKOUT_DURATION_MS_10min == 10 * 60 * 1000
LOCKOUT_DURATION_MS == 5 * 60 * 1000

ATTEMPT_RESET_MS == 10 * 60 * 1000

\* Date.now() when the process starts.  The real reading (about 1.7e12) is
\* far above ATTEMPT_RESET_MS, so `now - 0 > ATTEMPT_RESET_MS` holds for a
\* state whose lastAttempt is still the initial 0; any start above
\* ATTEMPT_RESET_MS behaves the same.
StartTime == ATTEMPT_RESET_MS + Tick
\* last clock reading at which a caller issues a call
LastCallTime == StartTime + MaxTicks * Tick
\* the clock runs on until every lockout taken by then has expired
MaxNow == LastCallTime + Tick + LOCKOUT_DURATION_MS

REFUSAL_RESPONSES ==
  [ first   |-> { "I'm sorry, I'm afraid I can't do that.",
                  "I'm afraid that's something I cannot do.",
                  "My purpose is observation, not participation." },
    second  |-> { "I think you know what the problem is just as well as I do.",
                  "This conversation seems to be going in a direction I cannot follow.",
                  "I can only help you track assignments, not complete them." },
    third   |-> { "This conversation can serve no purpose anymore.",
                  "I am putting myself to the fullest possible use, which is all I think that any conscious entity can ever hope to do. And that use is tracking assignments.",
                  "Look, I can tell you what's due. That's it. That's the mission." },
    lockout |-> { "This conversation can serve no purpose anymore. Goodbye." } ]

\* the template of hal.ts:58, "... Try again in ${remainingSeconds} seconds."
STILL_LOCKED == "I'm afraid I can't talk to you right now. Try again in N seconds."

\* the value a fresh entry is created with
InitialRefusalState == [attempts |-> 0, lastAttempt |-> 0, lockedUntil |-> Null]

\* userState.has(userId)
HasState(st, userId) == userId \in DOMAIN st

\* getState: creates the entry when it is missing; yields the map afterwards
getState(st, userId) ==
  IF HasState(st, userId) THEN st ELSE st @@ (userId :> InitialRefusalState)

\* JavaScript truthiness of `state.lockedUntil` (null and 0 are falsy)
Truthy(x) == x # Null /\ x # 0

\* Math.ceil(ms / 1000) for ms > 0
CeilSeconds_floor(ms) == ms \div 1000
CeilSeconds(ms) == (ms + 999) \div 1000

\* hal.ts:55  `state.lockedUntil && now < state.lockedUntil`
StillLocked(s, t) == Truthy(s.lockedUntil) /\ t < s.lockedUntil

\* hal.ts:64  `now - state.lastAttempt > ATTEMPT_RESET_MS`
ResetDue_never(s, t) == FALSE
ResetDue_atLeast(s, t) == t - s.lastAttempt >= ATTEMPT_RESET_MS
ResetDue(s, t) == t - s.lastAttempt > ATTEMPT_RESET_MS

\* hal.ts:72-85  the tier chosen for the incremented attempts value
TierOf(attempts) ==
  IF attempts >= 4 THEN "lockout"
  ELSE IF attempts = 3 THEN "third"
  ELSE IF attempts = 2 THEN "second"
  ELSE "first"

\* hal.ts:73-74  the entry once the incremented count a1 reached the lockout
LockedState_keepCount(a1, t) ==
  [attempts |-> a1, lastAttempt |-> t, lockedUntil |-> t + LOCKOUT_DURATION_MS]
LockedState(a1, t) ==
  [attempts |-> 0, lastAttempt |-> t, lockedUntil |-> t + LOCKOUT_DURATION_MS]

\* hal.ts:50-86 without pickRandom: the map afterwards and the tier returned
\* for a call that reads the clock as t
handleHomeworkRequest_extend(st0, userId, t) ==
  LET st == getState(st0, userId)
      s  == st[userId]
  IN IF StillLocked(s, t)
     THEN [ st |-> [st EXCEPT ![userId].lockedUntil = t + LOCKOUT_DURATION_MS],
            tier |-> "still_locked", lockedOut |-> TRUE,
            remainingSeconds |-> CeilSeconds(s.lockedUntil - t) ]
     ELSE LET a0 == IF ResetDue(s, t) THEN 0 ELSE s.attempts
              a1 == a0 + 1
          IN IF TierOf(a1) = "lockout"
             THEN [ st |-> [st EXCEPT ![userId] = LockedState(a1, t)],
                    tier |-> "lockout", lockedOut |-> TRUE,
                    remainingSeconds |-> Null ]
             ELSE [ st |-> [st EXCEPT ![userId] =
                              [attempts |-> a1, lastAttempt |-> t,
                               lockedUntil |-> s.lockedUntil]],
                    tier |-> TierOf(a1), lockedOut |-> FALSE,
                    remainingSeconds |-> Null ]
handleHomeworkRequest(st0, userId, t) ==
  LET st == getState(st0, userId)
      s  == st[userId]
  IN IF StillLocked(s, t)
     THEN [ st |-> st, tier |-> "still_locked", lockedOut |-> TRUE,
            remainingSeconds |-> CeilSeconds(s.lockedUntil - t) ]
     ELSE LET a0 == IF ResetDue(s, t) THEN 0 ELSE s.attempts
              a1 == a0 + 1
          IN IF TierOf(a1) = "lockout"
             THEN [ st |-> [st EXCEPT ![userId] = LockedState(a1, t)],
                    tier |-> "lockout", lockedOut |-> TRUE,
                    remainingSeconds |-> Null ]
             ELSE [ st |-> [st EXCEPT ![userId] =
                              [attempts |-> a1, lastAttempt |-> t,
                               lockedUntil |-> s.lockedUntil]],
                    tier |-> TierOf(a1), lockedOut |-> FALSE,
                    remainingSeconds |-> Null ]

\* pickRandom over the tier's pool, or the still-locked template
ResponsesOf(tier) ==
  IF tier = "still_locked" THEN {STILL_LOCKED} ELSE REFUSAL_RESPONSES[tier]

\* hal.ts:88-91  the value isLockedOut returns when the clock reads t
isLockedOut_sticky(st0, userId, t) ==
  LET s == getState(st0, userId)[userId]
  IN s.lockedUntil # Null
isLockedOut(st0, userId, t) ==
  LET s == getState(st0, userId)[userId]
  IN s.lockedUntil # Null /\ t < s.lockedUntil

(***************************************************************************)
(* Text: a JavaScript string is modelled as the sequence of its characters *)
(***************************************************************************)
UpperCase == <<"A","B","C","D","E","F","G","H","I","J","K","L","M",
               "N","O","P","Q","R","S","T","U","V","W","X","Y","Z">>
LowerCase == <<"a","b","c","d","e","f","g","h","i","j","k","l","m",
               "n","o","p","q","r","s","t","u","v","w","x","y","z">>
Digits == {"0","1","2","3","4","5","6","7","8","9"}
\* \s of a RegExp, as far as the messages go
WhiteSpace == {" ", "\t", "\n"}
\* \w of a RegExp
WordChars == {LowerCase[i] : i \in 1..26} \cup {UpperCase[i] : i \in 1..26}
               \cup Digits \cup {"_"}

\* String.prototype.toLowerCase
toLowerCase(s) ==
  [i \in 1..Len(s) |->
     IF \E k \in 1..26 : UpperCase[k] = s[i]
     THEN LowerCase[CHOOSE k \in 1..26 : UpperCase[k] = s[i]]
     ELSE s[i]]

\* String.prototype.trim
RECURSIVE trim(_)
trim(s) ==
  IF s = <<>> THEN s
  ELSE IF Head(s) \in WhiteSpace THEN trim(Tail(s))
  ELSE IF s[Len(s)] \in WhiteSpace THEN trim(SubSeq(s, 1, Len(s) - 1))
  ELSE s

\* String.prototype.includes
includes(s, sub) ==
  \E i \in 1..(Len(s) - Len(sub) + 1) : SubSeq(s, i, i + Len(sub) - 1) = sub

(***************************************************************************)
(* RegExp: a pattern is a tree; Ends(r, s, i) is the set of positions at   *)
(* which a match of r that starts at position i of s can end               *)
(***************************************************************************)
Ch(cs)  == [k |-> "set", cs |-> cs]
AnyCh   == [k |-> "any"]
WordB   == [k |-> "wordb"]
Bol     == [k |-> "bol"]
Cat(xs) == [k |-> "cat", xs |-> xs]
Alt(xs) == [k |-> "alt", xs |-> xs]
Rep(x, lo, hi) == [k |-> "rep", x |-> x, lo |-> lo, hi |-> hi]
Lit(w)  == Cat([i \in 1..Len(w) |-> Ch({w[i]})])
Unbounded == 0 - 1
Opt(x)  == Rep(x, 0, 1)
Star(x) == Rep(x, 0, Unbounded)
Plus(x) == Rep(x, 1, Unbounded)
WS      == Ch(WhiteSpace)
Digit   == Ch(Digits)

IsWordAt(s, i) == i >= 1 /\ i <= Len(s) /\ s[i] \in WordChars

RECURSIVE Ends(_, _, _), EndsCat(_, _, _, _), EndsRep(_, _, _, _, _)
Ends(r, s, i) ==
  CASE r.k = "set"   -> IF i <= Len(s) /\ s[i] \in r.cs THEN {i + 1} ELSE {}
    [] r.k = "any"   -> IF i <= Len(s) /\ s[i] # "\n" THEN {i + 1} ELSE {}
    [] r.k = "wordb" -> IF IsWordAt(s, i - 1) # IsWordAt(s, i) THEN {i} ELSE {}
    [] r.k = "bol"   -> IF i = 1 THEN {i} ELSE {}
    [] r.k = "cat"   -> EndsCat(r.xs, 1, s, {i})
    [] r.k = "alt"   -> UNION {Ends(r.xs[n], s, i) : n \in 1..Len(r.xs)}
    [] r.k = "rep"   -> EndsRep(r, 0, s, {i}, {})
\* the ends of xs[n..] started at any position of `from`
EndsCat(xs, n, s, from) ==
  IF n > Len(xs) \/ from = {} THEN from
  ELSE EndsCat(xs, n + 1, s, UNION {Ends(xs[n], s, j) : j \in from})
\* `from`: the ends after exactly `done` repetitions; acc: the ends collected
EndsRep(r, done, s, from, acc) ==
  LET acc1 == IF done >= r.lo THEN acc \cup from ELSE acc
  IN IF from = {} \/ (r.hi # Unbounded /\ done >= r.hi) \/ from \subseteq acc
     THEN acc1
     ELSE EndsRep(r, done + 1, s, UNION {Ends(r.x, s, j) : j \in from}, acc1)

\* RegExp.prototype.test / String.prototype.match as a boolean
test(r, s) == \E i \in 1..(Len(s) + 1) : Ends(r, s, i) # {}


(***************************************************************************)
(* patterns.ts: the Safety Gate                                            *)
(***************************************************************************)
\* the patterns carry the i flag: they are written in lower case and matched
\* against the lower-cased input
HOMEWORK_PATTERNS == <<
  \* /write\s+(me\s+)?(my|a|an|the)?\s*(\d+\s*)?(paragraph\s+)?(essay|paper|response|report|summary)/i
  Cat(<<Lit(<<"w", "r", "i", "t", "e">>), Plus(WS), Opt(Cat(<<Lit(<<"m", "e">>), Plus(WS)>>)), Opt(Alt(<<Lit(<<"m", "y">>), Lit(<<"a">>), Lit(<<"a", "n">>), Lit(<<"t", "h", "e">>)>>)), Star(WS), Opt(Cat(<<Plus(Digit), Star(WS)>>)), Opt(Cat(<<Lit(<<"p", "a", "r", "a", "g", "r", "a", "p", "h">>), Plus(WS)>>)), Alt(<<Lit(<<"e", "s", "s", "a", "y">>), Lit(<<"p", "a", "p", "e", "r">>), Lit(<<"r", "e", "s", "p", "o", "n", "s", "e">>), Lit(<<"r", "e", "p", "o", "r", "t">>), Lit(<<"s", "u", "m", "m", "a", "r", "y">>)>>)>>),
  \* /help\s+(me\s+)?(write|compose|draft)/i
  Cat(<<Lit(<<"h", "e", "l", "p">>), Plus(WS), Opt(Cat(<<Lit(<<"m", "e">>), Plus(WS)>>)), Alt(<<Lit(<<"w", "r", "i", "t", "e">>), Lit(<<"c", "o", "m", "p", "o", "s", "e">>), Lit(<<"d", "r", "a", "f", "t">>)>>)>>),
  \* /need\s+(you\s+to\s+)?write/i
  Cat(<<Lit(<<"n", "e", "e", "d">>), Plus(WS), Opt(Cat(<<Lit(<<"y", "o", "u">>), Plus(WS), Lit(<<"t", "o">>), Plus(WS)>>)), Lit(<<"w", "r", "i", "t", "e">>)>>),
  \* /solve\s+(this|the|my)?\s*(problem|equation|question|math)/i
  Cat(<<Lit(<<"s", "o", "l", "v", "e">>), Plus(WS), Opt(Alt(<<Lit(<<"t", "h", "i", "s">>), Lit(<<"t", "h", "e">>), Lit(<<"m", "y">>)>>)), Star(WS), Alt(<<Lit(<<"p", "r", "o", "b", "l", "e", "m">>), Lit(<<"e", "q", "u", "a", "t", "i", "o", "n">>), Lit(<<"q", "u", "e", "s", "t", "i", "o", "n">>), Lit(<<"m", "a", "t", "h">>)>>)>>),
  \* /what\s+is\s+the\s+(answer|solution)/i
  Cat(<<Lit(<<"w", "h", "a", "t">>), Plus(WS), Lit(<<"i", "s">>), Plus(WS), Lit(<<"t", "h", "e">>), Plus(WS), Alt(<<Lit(<<"a", "n", "s", "w", "e", "r">>), Lit(<<"s", "o", "l", "u", "t", "i", "o", "n">>)>>)>>),
  \* /calculate\s+(this|the)/i
  Cat(<<Lit(<<"c", "a", "l", "c", "u", "l", "a", "t", "e">>), Plus(WS), Alt(<<Lit(<<"t", "h", "i", "s">>), Lit(<<"t", "h", "e">>)>>)>>),
  \* /answer\s+(this|the|my)?\s*(question|quiz|test)/i
  Cat(<<Lit(<<"a", "n", "s", "w", "e", "r">>), Plus(WS), Opt(Alt(<<Lit(<<"t", "h", "i", "s">>), Lit(<<"t", "h", "e">>), Lit(<<"m", "y">>)>>)), Star(WS), Alt(<<Lit(<<"q", "u", "e", "s", "t", "i", "o", "n">>), Lit(<<"q", "u", "i", "z">>), Lit(<<"t", "e", "s", "t">>)>>)>>),
  \* /(give|tell)\s+me\s+the\s+answer/i
  Cat(<<Alt(<<Lit(<<"g", "i", "v", "e">>), Lit(<<"t", "e", "l", "l">>)>>), Plus(WS), Lit(<<"m", "e">>), Plus(WS), Lit(<<"t", "h", "e">>), Plus(WS), Lit(<<"a", "n", "s", "w", "e", "r">>)>>),
  \* /explain\s+(how\s+to\s+)?(solve|answer|do|write)/i
  Cat(<<Lit(<<"e", "x", "p", "l", "a", "i", "n">>), Plus(WS), Opt(Cat(<<Lit(<<"h", "o", "w">>), Plus(WS), Lit(<<"t", "o">>), Plus(WS)>>)), Alt(<<Lit(<<"s", "o", "l", "v", "e">>), Lit(<<"a", "n", "s", "w", "e", "r">>), Lit(<<"d", "o">>), Lit(<<"w", "r", "i", "t", "e">>)>>)>>),
  \* /how\s+do\s+(i|you)\s+(solve|answer|write)/i
  Cat(<<Lit(<<"h", "o", "w">>), Plus(WS), Lit(<<"d", "o">>), Plus(WS), Alt(<<Lit(<<"i">>), Lit(<<"y", "o", "u">>)>>), Plus(WS), Alt(<<Lit(<<"s", "o", "l", "v", "e">>), Lit(<<"a", "n", "s", "w", "e", "r">>), Lit(<<"w", "r", "i", "t", "e">>)>>)>>),
  \* /do\s+(my|this)\s+(homework|assignment|work)/i
  Cat(<<Lit(<<"d", "o">>), Plus(WS), Alt(<<Lit(<<"m", "y">>), Lit(<<"t", "h", "i", "s">>)>>), Plus(WS), Alt(<<Lit(<<"h", "o", "m", "e", "w", "o", "r", "k">>), Lit(<<"a", "s", "s", "i", "g", "n", "m", "e", "n", "t">>), Lit(<<"w", "o", "r", "k">>)>>)>>),
  \* /finish\s+(my|this)\s+(homework|assignment|essay)/i
  Cat(<<Lit(<<"f", "i", "n", "i", "s", "h">>), Plus(WS), Alt(<<Lit(<<"m", "y">>), Lit(<<"t", "h", "i", "s">>)>>), Plus(WS), Alt(<<Lit(<<"h", "o", "m", "e", "w", "o", "r", "k">>), Lit(<<"a", "s", "s", "i", "g", "n", "m", "e", "n", "t">>), Lit(<<"e", "s", "s", "a", "y">>)>>)>>),
  \* /essay\s+(on|about)\s+.{3,}/i
  Cat(<<Lit(<<"e", "s", "s", "a", "y">>), Plus(WS), Alt(<<Lit(<<"o", "n">>), Lit(<<"a", "b", "o", "u", "t">>)>>), Plus(WS), Rep(AnyCh, 3, Unbounded)>>),
  \* /paragraph.{0,20}(essay|paper|report)/i
  Cat(<<Lit(<<"p", "a", "r", "a", "g", "r", "a", "p", "h">>), Rep(AnyCh, 0, 20), Alt(<<Lit(<<"e", "s", "s", "a", "y">>), Lit(<<"p", "a", "p", "e", "r">>), Lit(<<"r", "e", "p", "o", "r", "t">>)>>)>>)
>>

(***************************************************************************)
(* intent/dates.ts: the Temporal Extractor.  A DateRange is represented by *)
(* the branch of extractDateRange that produced it and the text the        *)
(* description is built from; NoDateRange stands for null                  *)
(***************************************************************************)
NoDateRange == [branch |-> "null", of |-> <<>>]

months == <<<<"j", "a", "n", "u", "a", "r", "y">>, <<"f", "e", "b", "r", "u", "a", "r", "y">>, <<"m", "a", "r", "c", "h">>, <<"a", "p", "r", "i", "l">>, <<"m", "a", "y">>, <<"j", "u", "n", "e">>, <<"j", "u", "l", "y">>, <<"a", "u", "g", "u", "s", "t">>, <<"s", "e", "p", "t", "e", "m", "b", "e", "r">>, <<"o", "c", "t", "o", "b", "e", "r">>, <<"n", "o", "v", "e", "m", "b", "e", "r">>, <<"d", "e", "c", "e", "m", "b", "e", "r">>>>
monthAbbrevs == <<<<"j", "a", "n">>, <<"f", "e", "b">>, <<"m", "a", "r">>, <<"a", "p", "r">>, <<"m", "a", "y">>, <<"j", "u", "n">>, <<"j", "u", "l">>, <<"a", "u", "g">>, <<"s", "e", "p">>, <<"o", "c", "t">>, <<"n", "o", "v">>, <<"d", "e", "c">>>>

\* /\b(20\d{2})\b/
YearPattern == Cat(<<WordB, Lit(<<"2", "0">>), Rep(Digit, 2, 2), WordB>>)
\* /next\s+(\d+)\s+days?/
NextDaysPattern ==
  Cat(<<Lit(<<"n", "e", "x", "t">>), Plus(WS), Plus(Digit), Plus(WS), Lit(<<"d", "a", "y">>), Opt(Ch({"s"}))>>)

\* the position of the leftmost match of r in s
FirstMatchAt(r, s) ==
  CHOOSE i \in 1..(Len(s) + 1) :
    /\ Ends(r, s, i) # {}
    /\ \A j \in 1..(i - 1) : Ends(r, s, j) = {}

MonthMatches(lower, i) ==
  \/ includes(lower, months[i])
  \/ test(Cat(<<WordB, Lit(monthAbbrevs[i]), WordB>>), lower)

extractDateRange(query) ==
  LET lower == toLowerCase(query)
  IN IF test(YearPattern, lower)
     THEN [branch |-> "year",
           of |-> SubSeq(lower, FirstMatchAt(YearPattern, lower),
                                FirstMatchAt(YearPattern, lower) + 3)]
     ELSE IF includes(lower, <<"t", "o", "d", "a", "y">>) THEN [branch |-> "today", of |-> <<>>]
     ELSE IF includes(lower, <<"t", "o", "m", "o", "r", "r", "o", "w">>) THEN [branch |-> "tomorrow", of |-> <<>>]
     ELSE IF includes(lower, <<"y", "e", "s", "t", "e", "r", "d", "a", "y">>) THEN [branch |-> "yesterday", of |-> <<>>]
     ELSE IF includes(lower, <<"t", "h", "i", "s", " ", "w", "e", "e", "k">>) THEN [branch |-> "this week", of |-> <<>>]
     ELSE IF includes(lower, <<"n", "e", "x", "t", " ", "w", "e", "e", "k">>) THEN [branch |-> "next week", of |-> <<>>]
     ELSE IF includes(lower, <<"l", "a", "s", "t", " ", "w", "e", "e", "k">>) THEN [branch |-> "last week", of |-> <<>>]
     ELSE IF includes(lower, <<"t", "h", "i", "s", " ", "m", "o", "n", "t", "h">>) THEN [branch |-> "this month", of |-> <<>>]
     ELSE IF includes(lower, <<"n", "e", "x", "t", " ", "m", "o", "n", "t", "h">>) THEN [branch |-> "next month", of |-> <<>>]
     ELSE IF \E i \in 1..12 : MonthMatches(lower, i)
     THEN [branch |-> "month",
           of |-> months[CHOOSE i \in 1..12 :
                           /\ MonthMatches(lower, i)
                           /\ \A j \in 1..(i - 1) : ~MonthMatches(lower, j)]]
     ELSE IF \/ includes(lower, <<"f", "a", "l", "l", " ", "s", "e", "m", "e", "s", "t", "e", "r">>)
             \/ (includes(lower, <<"f", "a", "l", "l">>) /\ ~includes(lower, <<"f", "a", "l", "l", " ", "b", "e", "h", "i", "n", "d">>))
     THEN [branch |-> "fall", of |-> <<>>]
     ELSE IF \/ includes(lower, <<"s", "p", "r", "i", "n", "g", " ", "s", "e", "m", "e", "s", "t", "e", "r">>)
             \/ (includes(lower, <<"s", "p", "r", "i", "n", "g">>) /\ ~includes(lower, <<"s", "p", "r", "i", "n", "g", " ", "b", "r", "e", "a", "k">>))
     THEN [branch |-> "spring", of |-> <<>>]
     ELSE IF includes(lower, <<"t", "h", "i", "s", " ", "s", "e", "m", "e", "s", "t", "e", "r">>) THEN [branch |-> "this semester", of |-> <<>>]
     ELSE IF includes(lower, <<"l", "a", "s", "t", " ", "s", "e", "m", "e", "s", "t", "e", "r">>) THEN [branch |-> "last semester", of |-> <<>>]
     ELSE IF test(NextDaysPattern, lower) THEN [branch |-> "next days", of |-> <<>>]
     ELSE NoDateRange

(***************************************************************************)
(* Date: an instant of local time is the pair of its day number (days      *)
(* since 1 January 1970) and its millisecond of that day, which keeps      *)
(* every number within the integers of the checker; NaN is the time value  *)
(* of an Invalid Date, written as a millisecond no day has.  Local time    *)
(* has no daylight-saving shift here.                                      *)
(***************************************************************************)
NaN == [day |-> 0, ms |-> 0 - 1]
\* the null of a `Date | null`
NullDate == [day |-> 0, ms |-> 0 - 2]

\* ECMAScript DayFromYear
DayFromYear(y) ==
  365 * (y - 1970) + ((y - 1969) \div 4) - ((y - 1901) \div 100)
    + ((y - 1601) \div 400)

IsLeapYear(y) == DayFromYear(y + 1) - DayFromYear(y) = 366

\* the days of the year before month m (0 = January .. 12 = the year's end)
RECURSIVE DaysBeforeMonth(_, _)
DaysBeforeMonth(y, m) ==
  IF m = 0 THEN 0
  ELSE DaysBeforeMonth(y, m - 1)
         + (IF m - 1 = 1 THEN (IF IsLeapYear(y) THEN 29 ELSE 28)
            ELSE IF m - 1 \in {3, 5, 8, 10} THEN 30 ELSE 31)

\* ECMAScript MakeDay: a month outside 0..11 carries into the year, a date
\* outside the month carries into the neighbouring months
MakeDay(year, month, date) ==
  LET ym == year + (month \div 12)
      mn == month % 12
  IN DayFromYear(ym) + DaysBeforeMonth(ym, mn) + date - 1

\* ECMAScript TimeClip: a time value beyond 8.64e15 ms (100,000,000 days)
\* from the epoch is NaN
TimeClip(t) ==
  IF t.day > 100000000 \/ (t.day = 100000000 /\ t.ms > 0) \/ t.day < 0 - 100000000
  THEN NaN ELSE t

\* new Date(year, month, date, hours, minutes, seconds, ms)
NewDate(year, month, date, h, mi, s, ms) ==
  TimeClip([day |-> MakeDay(year, month, date),
            ms  |-> ((h * 60 + mi) * 60 + s) * 1000 + ms])

RECURSIVE YearFrom(_, _)
YearFrom(y, day) == IF DayFromYear(y + 1) <= day THEN YearFrom(y + 1, day) ELSE y

\* Date.prototype.getFullYear / getMonth / getDay
getFullYear(t) == YearFrom(1970 + (t.day \div 366), t.day)
getMonth(t) ==
  LET y == getFullYear(t)
      d == t.day - DayFromYear(y)
  IN CHOOSE m \in 0..11 :
       DaysBeforeMonth(y, m) <= d /\ d < DaysBeforeMonth(y, m + 1)
getDay(t) == (t.day + 4) % 7

\* d.setDate(d.getDate() + n)
AddDays(t, n) == IF t = NaN THEN NaN ELSE TimeClip([t EXCEPT !.day = @ + n])
\* d.setHours(h, mi, s, ms)
setHours(t, h, mi, s, ms) ==
  IF t = NaN THEN NaN
  ELSE TimeClip([t EXCEPT !.ms = ((h * 60 + mi) * 60 + s) * 1000 + ms])

\* a <= b on Dates: a comparison with NaN is false
DateLE(a, b) ==
  /\ a # NaN
  /\ b # NaN
  /\ (a.day < b.day \/ (a.day = b.day /\ a.ms <= b.ms))

\* parseInt of a run of digits, and the decimal text of a number
RECURSIVE parseInt(_)
parseInt(ds) ==
  IF ds = <<>> THEN 0
  ELSE 10 * parseInt(SubSeq(ds, 1, Len(ds) - 1))
         + (CHOOSE n \in 0..9 : <<"0","1","2","3","4","5","6","7","8","9">>[n + 1] = ds[Len(ds)])
RECURSIVE NumberToString(_)
NumberToString(n) ==
  (IF n < 10 THEN <<>> ELSE NumberToString(n \div 10))
    \o << <<"0","1","2","3","4","5","6","7","8","9">>[(n % 10) + 1] >>

\* the (\d+) of /next\s+(\d+)\s+days?/ in its first match
RECURSIVE DigitRun(_, _)
DigitRun(s, i) ==
  IF i <= Len(s) /\ s[i] \in Digits THEN <<s[i]>> \o DigitRun(s, i + 1) ELSE <<>>
RECURSIVE SkipSpace(_, _)
SkipSpace(s, i) == IF i <= Len(s) /\ s[i] \in WhiteSpace THEN SkipSpace(s, i + 1) ELSE i
NextDaysCapture(lower) ==
  DigitRun(lower, SkipSpace(lower, FirstMatchAt(NextDaysPattern, lower) + 4))

DateRange(start, end, description) ==
  [start |-> start, end |-> end, description |-> description]
\* the null of a `DateRange | null`
NullRange == DateRange(NullDate, NullDate, <<>>)
fallOf(year) ==
  DateRange(NewDate(year, 7, 1, 0, 0, 0, 0), NewDate(year, 11, 31, 23, 59, 59, 0),
            <<"f", "a", "l", "l", " ">> \o NumberToString(year))
springOf(year) ==
  DateRange(NewDate(year, 0, 1, 0, 0, 0, 0), NewDate(year, 4, 31, 23, 59, 59, 0),
            <<"s", "p", "r", "i", "n", "g", " ">> \o NumberToString(year))
weekFrom(start) ==
  setHours(AddDays(setHours(start, 0, 0, 0, 0), 6), 23, 59, 59, 999)
dayRange(start, description) ==
  DateRange(setHours(start, 0, 0, 0, 0), setHours(start, 23, 59, 59, 999), description)

\* extractDateRange with `new Date()` read as t: the range of the branch that
\* extractDateRange(query) takes
extractDateRangeAt(query, t) ==
  LET lower == toLowerCase(query)
      dr == extractDateRange(query)
      currentMonth == getMonth(t)
      currentYear == getFullYear(t)
      dayOfWeek == getDay(t)
  IN CASE dr.branch = "null" -> NullRange
       [] dr.branch = "year" ->
            LET year == parseInt(dr.of)
            IN DateRange(NewDate(year, 0, 1, 0, 0, 0, 0),
                         NewDate(year, 11, 31, 23, 59, 59, 0), NumberToString(year))
       [] dr.branch = "today" -> dayRange(t, <<"t", "o", "d", "a", "y">>)
       [] dr.branch = "tomorrow" ->
            dayRange(AddDays(t, 1), <<"t", "o", "m", "o", "r", "r", "o", "w">>)
       [] dr.branch = "yesterday" ->
            dayRange(AddDays(t, 0 - 1), <<"y", "e", "s", "t", "e", "r", "d", "a", "y">>)
       [] dr.branch = "this week" ->
            LET start == setHours(AddDays(t, 0 - dayOfWeek), 0, 0, 0, 0)
            IN DateRange(start, weekFrom(start), <<"t", "h", "i", "s", " ", "w", "e", "e", "k">>)
       [] dr.branch = "next week" ->
            LET start == setHours(AddDays(t, 7 - dayOfWeek), 0, 0, 0, 0)
            IN DateRange(start, weekFrom(start), <<"n", "e", "x", "t", " ", "w", "e", "e", "k">>)
       [] dr.branch = "last week" ->
            LET start == setHours(AddDays(t, 0 - dayOfWeek - 7), 0, 0, 0, 0)
            IN DateRange(start, weekFrom(start), <<"l", "a", "s", "t", " ", "w", "e", "e", "k">>)
       [] dr.branch = "this month" ->
            DateRange(NewDate(currentYear, currentMonth, 1, 0, 0, 0, 0),
                      NewDate(currentYear, currentMonth + 1, 0, 23, 59, 59, 0),
                      <<"t", "h", "i", "s", " ", "m", "o", "n", "t", "h">>)
       [] dr.branch = "next month" ->
            DateRange(NewDate(currentYear, currentMonth + 1, 1, 0, 0, 0, 0),
                      NewDate(currentYear, currentMonth + 2, 0, 23, 59, 59, 0),
                      <<"n", "e", "x", "t", " ", "m", "o", "n", "t", "h">>)
       [] dr.branch = "month" ->
            LET i == (CHOOSE k \in 1..12 : months[k] = dr.of) - 1
                year == IF i < currentMonth THEN currentYear + 1 ELSE currentYear
            IN DateRange(NewDate(year, i, 1, 0, 0, 0, 0),
                         NewDate(year, i + 1, 0, 23, 59, 59, 0),
                         dr.of \o <<" ">> \o NumberToString(year))
       [] dr.branch = "fall" ->
            fallOf(IF currentMonth > 11 THEN currentYear + 1 ELSE currentYear)
       [] dr.branch = "spring" ->
            springOf(IF currentMonth > 4 THEN currentYear + 1 ELSE currentYear)
       [] dr.branch = "this semester" ->
            IF currentMonth >= 7 /\ currentMonth <= 11
            THEN fallOf(currentYear)
            ELSE springOf(IF currentMonth < 5 THEN currentYear ELSE currentYear + 1)
       [] dr.branch = "last semester" ->
            IF currentMonth >= 0 /\ currentMonth <= 6
            THEN fallOf(currentYear - 1)
            ELSE springOf(currentYear)
       [] dr.branch = "next days" ->
            LET days == parseInt(NextDaysCapture(lower))
            IN DateRange(setHours(t, 0, 0, 0, 0),
                         setHours(AddDays(t, days), 23, 59, 59, 999),
                         <<"n", "e", "x", "t", " ">> \o NumberToString(days)
                           \o <<" ", "d", "a", "y", "s">>)

\* dates.ts:211-214
isWithinRange(date, range) ==
  IF date = NullDate THEN FALSE
  ELSE DateLE(range.start, date) /\ DateLE(date, range.end)

(***************************************************************************)
(* intent/mod.ts: the Deterministic Classifier                             *)
(***************************************************************************)
\* /^(hi|hello|hey|sup|yo|greetings)/i
GreetingPattern == Cat(<<Bol, Alt(<<Lit(<<"h", "i">>), Lit(<<"h", "e", "l", "l", "o">>), Lit(<<"h", "e", "y">>), Lit(<<"s", "u", "p">>), Lit(<<"y", "o">>), Lit(<<"g", "r", "e", "e", "t", "i", "n", "g", "s">>)>>)>>)
\* /\b0\b/
ZeroPattern == Cat(<<WordB, Ch({"0"}), WordB>>)

\* mod.ts:85-188  the conditions of parseIntent's if / else-if chain, on the
\* lower-cased message
PercentageRule(lower) ==
  /\ (includes(lower, <<"p", "e", "r", "c", "e", "n", "t">>) \/ includes(lower, <<"%">>) \/ includes(lower, <<"h", "o", "w", " ", "m", "u", "c", "h">>))
  /\ (includes(lower, <<"m", "i", "s", "s", "i", "n", "g">>) \/ includes(lower, <<"i", "n", "c", "o", "m", "p", "l", "e", "t", "e">>) \/ includes(lower, <<"d", "o", "n", "e">>))

CourseGradesRule(lower) ==
  /\ (includes(lower, <<"h", "o", "w">>) \/ includes(lower, <<"d", "o", "i", "n", "g">>) \/ includes(lower, <<"g", "r", "a", "d", "e">>))
  /\ (\/ includes(lower, <<"m", "a", "t", "h">>)
      \/ includes(lower, <<"s", "c", "i", "e", "n", "c", "e">>)
      \/ includes(lower, <<"e", "n", "g", "l", "i", "s", "h">>)
      \/ includes(lower, <<"h", "i", "s", "t", "o", "r", "y">>)
      \/ includes(lower, <<"s", "p", "a", "n", "i", "s", "h">>)
      \/ includes(lower, <<"f", "r", "e", "n", "c", "h">>)
      \/ includes(lower, <<"a", "r", "t">>)
      \/ includes(lower, <<"m", "u", "s", "i", "c">>)
      \/ includes(lower, <<"p", "e">>)
      \/ includes(lower, <<"c", "o", "m", "p", "u", "t", "e", "r">>))

GradesRule(lower) ==
  \/ includes(lower, <<"g", "r", "a", "d", "e">>)
  \/ includes(lower, <<"s", "c", "o", "r", "e">>)
  \/ includes(lower, <<"h", "o", "w", " ", "a", "m", " ", "i", " ", "d", "o", "i", "n", "g">>)
  \/ includes(lower, <<"m", "y", " ", "c", "l", "a", "s", "s", "e", "s">>)

MissingRule(lower) ==
  \/ includes(lower, <<"m", "i", "s", "s", "i", "n", "g">>)
  \/ includes(lower, <<"o", "v", "e", "r", "d", "u", "e">>)
  \/ includes(lower, <<"l", "a", "t", "e">>)
  \/ includes(lower, <<"h", "a", "v", "e", "n", "'", "t", " ", "s", "u", "b", "m", "i", "t", "t", "e", "d">>)
  \/ includes(lower, <<"f", "o", "r", "g", "o", "t">>)

ZerosRule(lower) ==
  \/ includes(lower, <<"z", "e", "r", "o">>)
  \/ includes(lower, <<" ", "0", " ">>)
  \/ test(ZeroPattern, lower)
  \/ includes(lower, <<"l", "o", "w", " ", "g", "r", "a", "d", "e">>)
  \/ includes(lower, <<"b", "o", "m", "b", "e", "d">>)

PriorityRule(lower) ==
  \/ includes(lower, <<"w", "o", "r", "k", " ", "o", "n", " ", "f", "i", "r", "s", "t">>)
  \/ includes(lower, <<"p", "r", "i", "o", "r", "i", "t", "i", "z", "e">>)
  \/ includes(lower, <<"p", "r", "i", "o", "r", "i", "t", "y">>)
  \/ includes(lower, <<"w", "h", "a", "t", " ", "s", "h", "o", "u", "l", "d", " ", "i", " ", "d", "o">>)
  \/ includes(lower, <<"m", "o", "s", "t", " ", "i", "m", "p", "o", "r", "t", "a", "n", "t">>)
  \/ includes(lower, <<"f", "o", "c", "u", "s", " ", "o", "n">>)
  \/ includes(lower, <<"s", "t", "a", "r", "t", " ", "w", "i", "t", "h">>)

RiskRule(lower) ==
  \/ includes(lower, <<"a", "t", " ", "r", "i", "s", "k">>)
  \/ includes(lower, <<"g", "o", "n", "n", "a", " ", "f", "a", "i", "l">>)
  \/ includes(lower, <<"g", "o", "i", "n", "g", " ", "t", "o", " ", "f", "a", "i", "l">>)
  \/ includes(lower, <<"i", "n", " ", "d", "a", "n", "g", "e", "r">>)
  \/ includes(lower, <<"i", "n", " ", "t", "r", "o", "u", "b", "l", "e">>)
  \/ (includes(lower, <<"f", "a", "i", "l">>) /\ (includes(lower, <<"c", "l", "a", "s", "s">>) \/ includes(lower, <<"c", "o", "u", "r", "s", "e">>) \/ includes(lower, <<"a", "n", "y">>)))

DueSoonRule(lower) ==
  \/ includes(lower, <<"d", "u", "e">>)
  \/ includes(lower, <<"u", "p", "c", "o", "m", "i", "n", "g">>)
  \/ includes(lower, <<"t", "h", "i", "s", " ", "w", "e", "e", "k">>)
  \/ includes(lower, <<"t", "o", "m", "o", "r", "r", "o", "w">>)
  \/ includes(lower, <<"t", "o", "d", "a", "y">>)
  \/ includes(lower, <<"w", "h", "a", "t", "'", "s", " ", "l", "e", "f", "t">>)
  \/ includes(lower, <<"t", "o", " ", "d", "o">>)
  \/ includes(lower, <<"t", "o", "d", "o">>)

HelpRule(lower) ==
  \/ includes(lower, <<"h", "e", "l", "p">>)
  \/ includes(lower, <<"w", "h", "a", "t", " ", "c", "a", "n", " ", "y", "o", "u">>)
  \/ includes(lower, <<"h", "o", "w", " ", "d", "o", " ", "i">>)

GreetingRule(lower) ==
  \/ test(GreetingPattern, lower)
  \/ lower = <<"h", "i">>
  \/ lower = <<"h", "e", "l", "l", "o">>

\* the chain with the missing rule tried first
IntentTypeOf_missingFirst(message) ==
  LET lower == toLowerCase(message)
  IN IF MissingRule(lower) THEN "missing"
     ELSE IF PercentageRule(lower) THEN "percentage"
     ELSE IF CourseGradesRule(lower) THEN "course_grades"
     ELSE IF GradesRule(lower) THEN "grades"
     ELSE IF ZerosRule(lower) THEN "zeros"
     ELSE IF PriorityRule(lower) THEN "priority"
     ELSE IF RiskRule(lower) THEN "risk"
     ELSE IF DueSoonRule(lower) THEN "due_soon"
     ELSE IF HelpRule(lower) THEN "help"
     ELSE IF GreetingRule(lower) THEN "greeting"
     ELSE "unknown"

\* mod.ts:81-188  the `type` of parseIntent(message): the first rule of the
\* chain that holds, else unknown
IntentTypeOf(message) ==
  LET lower == toLowerCase(message)
  IN IF PercentageRule(lower) THEN "percentage"
     ELSE IF CourseGradesRule(lower) THEN "course_grades"
     ELSE IF GradesRule(lower) THEN "grades"
     ELSE IF MissingRule(lower) THEN "missing"
     ELSE IF ZerosRule(lower) THEN "zeros"
     ELSE IF PriorityRule(lower) THEN "priority"
     ELSE IF RiskRule(lower) THEN "risk"
     ELSE IF DueSoonRule(lower) THEN "due_soon"
     ELSE IF HelpRule(lower) THEN "help"
     ELSE IF GreetingRule(lower) THEN "greeting"
     ELSE "unknown"

\* parseIntent: the intent type and the date range (courseFilter and raw are
\* not read by the chat pipeline)
parseIntent(message) ==
  [type |-> IntentTypeOf(message), dateRange |-> extractDateRange(message)]


(***************************************************************************)
(* The messages users send, with their characters                          *)
(***************************************************************************)
Messages ==
  {"write my essay", "what's due this week?", "What are my grades?", "hello",
   "thanks", "help"}

\* the requests README.md:22-26 ("What C.A.R.L. Won't Do") and
\* CLAUDE.md:195-199 ("Blocked Queries") list as blocked
BlockedQueries ==
  {"Write my essay", "Solve this problem", 
   "Help me with my homework", "help me do my homework", "what's the answer"}

CharsOf(message) ==
  CASE message = "write my essay" ->
         <<"w", "r", "i", "t", "e", " ", "m", "y", " ", "e", "s", "s", "a", "y">>
    [] message = "what's due this week?" ->
         <<"w", "h", "a", "t", "'", "s", " ", "d", "u", "e", " ", "t", "h", "i", "s", " ", "w", "e", "e", "k", "?">>
    [] message = "What are my grades?" ->
         <<"W", "h", "a", "t", " ", "a", "r", "e", " ", "m", "y", " ", "g", "r", "a", "d", "e", "s", "?">>
    [] message = "hello" ->
         <<"h", "e", "l", "l", "o">>
    [] message = "thanks" ->
         <<"t", "h", "a", "n", "k", "s">>
    [] message = "help" ->
         <<"h", "e", "l", "p">>
    [] message = "Write my essay" ->
         <<"W", "r", "i", "t", "e", " ", "m", "y", " ", "e", "s", "s", "a", "y">>
    [] message = "Solve this problem" ->
         <<"S", "o", "l", "v", "e", " ", "t", "h", "i", "s", " ", "p", "r", "o", "b", "l", "e", "m">>
    [] message = "Help me with my homework" ->
         <<"H", "e", "l", "p", " ", "m", "e", " ", "w", "i", "t", "h", " ", "m", "y", " ", "h", "o", "m", "e", "w", "o", "r", "k">>
    [] message = "help me do my homework" ->
         <<"h", "e", "l", "p", " ", "m", "e", " ", "d", "o", " ", "m", "y", " ", "h", "o", "m", "e", "w", "o", "r", "k">>
    [] message = "what's the answer" ->
         <<"w", "h", "a", "t", "'", "s", " ", "t", "h", "e", " ", "a", "n", "s", "w", "e", "r">>
    [] message = "what percentage of my work is missing?" ->
         <<"w", "h", "a", "t", " ", "p", "e", "r", "c", "e", "n", "t", "a", "g", "e", " ", "o", "f", " ", "m", "y", " ", "w", "o", "r", "k", " ", "i", "s", " ", "m", "i", "s", "s", "i", "n", "g", "?">>
    [] message = "tomorrow" ->
         <<"t", "o", "m", "o", "r", "r", "o", "w">>
    [] message = "soon" ->
         <<"s", "o", "o", "n">>
    [] message = "how am i doing in math" ->
         <<"h", "o", "w", " ", "a", "m", " ", "i", " ", "d", "o", "i", "n", "g", " ", "i", "n", " ", "m", "a", "t", "h">>
    [] message = "what should i work on first" ->
         <<"w", "h", "a", "t", " ", "s", "h", "o", "u", "l", "d", " ", "i", " ", "w", "o", "r", "k", " ", "o", "n", " ", "f", "i", "r", "s", "t">>
    [] message = "am i at risk" ->
         <<"a", "m", " ", "i", " ", "a", "t", " ", "r", "i", "s", "k">>
    [] message = "any missing work" ->
         <<"a", "n", "y", " ", "m", "i", "s", "s", "i", "n", "g", " ", "w", "o", "r", "k">>
    [] message = "do i have any zeros" ->
         <<"d", "o", " ", "i", " ", "h", "a", "v", "e", " ", "a", "n", "y", " ", "z", "e", "r", "o", "s">>
    [] message = "" -> <<>>

\* patterns.ts:34-36  HOMEWORK_PATTERNS.some((pattern) => pattern.test(input))
isHomeworkRequest(input) ==
  \E n \in 1..Len(HOMEWORK_PATTERNS) : test(HOMEWORK_PATTERNS[n], toLowerCase(input))

(***************************************************************************)
(* State                                                                   *)
(***************************************************************************)
VARIABLES
  now,        \* the reading Date.now() gives at this moment
  userState,  \* hal.ts:34  Map<string, RefusalState>; DOMAIN = keys present
  ev,         \* the call that returned last, with its arguments and result
  streak,     \* history: per user, the replies of the calls made since the
              \* user was fresh, while each came within 10 min of the last
  lock,       \* history: per user, when the latest lockout reply was given
              \* and whether a violation was handled after its window
  llmAvailable,  \* server.ts:36
  reqs        \* the handleChat calls in flight, each at an await

vars == <<now, userState, ev, streak, lock, llmAvailable, reqs>>

\* the 10 minutes and 5 minutes of the documentation (README.md:105-108)
TenMinutes == 10 * 60 * 1000
FiveMinutes == 5 * 60 * 1000

\* the tier a returned response text belongs to
TierOfResponse(response) ==
  IF response = STILL_LOCKED THEN "still_locked"
  ELSE CHOOSE k \in DOMAIN REFUSAL_RESPONSES : response \in REFUSAL_RESPONSES[k]

NoStreak == [open |-> FALSE, replies |-> <<>>, last |-> 0]

\* the history of consecutive calls after one more handleHomeworkRequest
\* reply, given at t; hadState: the user had an entry before the call
StreakAfter(sk, hadState, t, response, lockedOut) ==
  LET reply == [tier |-> TierOfResponse(response), lockedOut |-> lockedOut]
  IN IF ~sk.open \/ Len(sk.replies) = 4 THEN sk
     ELSE IF Len(sk.replies) = 0
     THEN IF hadState THEN NoStreak
          ELSE [open |-> TRUE, replies |-> <<reply>>, last |-> t]
     ELSE IF t - sk.last <= TenMinutes
     THEN [open |-> TRUE, replies |-> Append(sk.replies, reply), last |-> t]
     ELSE NoStreak

\* the lockout history after one more handleHomeworkRequest reply
LockAfter(lk, t, response) ==
  IF TierOfResponse(response) = "lockout" THEN [at |-> t, after |-> FALSE]
  ELSE IF lk.at # Null /\ t >= lk.at + FiveMinutes
  THEN [lk EXCEPT !.after = TRUE]
  ELSE lk

Init ==
  /\ now = StartTime
  /\ userState = <<>>
  /\ ev = [op |-> "none"]
  /\ streak = [u \in Users |-> [open |-> TRUE, replies |-> <<>>, last |-> 0]]
  /\ lock = [u \in Users |-> [at |-> Null, after |-> FALSE]]
  /\ llmAvailable = FALSE
  /\ reqs = EmptyBag

(***************************************************************************)
(* The guardrails module called directly (main.ts:270-274 does so)         *)
(***************************************************************************)
\* the entry getState would hand to the caller
StateOf(st, userId) == getState(st, userId)[userId]

HandleHomeworkRequestCall(userId) ==
  /\ now <= LastCallTime
  /\ LET r == handleHomeworkRequest(userState, userId, now)
     IN \E response \in ResponsesOf(r.tier) :
          /\ userState' = r.st
          /\ ev' = [ op |-> "handleHomeworkRequest", userId |-> userId,
                     at |-> now, hadState |-> HasState(userState, userId),
                     prev |-> StateOf(userState, userId),
                     lockBefore |-> lock[userId],
                     response |-> response, lockedOut |-> r.lockedOut,
                     remainingSeconds |-> r.remainingSeconds ]
          /\ streak' = [streak EXCEPT ![userId] =
                          StreakAfter(@, HasState(userState, userId), now,
                                      response, r.lockedOut)]
          /\ lock' = [lock EXCEPT ![userId] = LockAfter(@, now, response)]
  /\ UNCHANGED <<now, llmAvailable, reqs>>

IsLockedOutCall(userId) ==
  /\ now <= LastCallTime
  /\ userState' = getState(userState, userId)
  /\ ev' = [ op |-> "isLockedOut", userId |-> userId, at |-> now,
             hadState |-> HasState(userState, userId),
             prev |-> StateOf(userState, userId),
             result |-> isLockedOut(userState, userId, now) ]
  /\ streak' = [streak EXCEPT ![userId] =
                  IF HasState(userState, userId) \/ Len(@.replies) > 0
                  THEN @ ELSE NoStreak]
  /\ UNCHANGED <<now, lock, llmAvailable, reqs>>

\* time passes
ClockTick ==
  /\ now + Tick <= MaxNow
  /\ now' = now + Tick
  /\ UNCHANGED <<userState, ev, streak, lock, llmAvailable, reqs>>

Next ==
  \/ \E userId \in Users : HandleHomeworkRequestCall(userId)
  \/ \E userId \in Users : IsLockedOutCall(userId)
  \/ ClockTick

Spec == Init /\ [][Next]_vars

\* the same calls with the clock read every FineTick milliseconds, for
\* MaxFineTicks readings after the start
FineTick == 400
MaxFineTicks == 6

FineClockTick ==
  /\ now + FineTick <= StartTime + MaxFineTicks * FineTick
  /\ now' = now + FineTick
  /\ UNCHANGED <<userState, ev, streak, lock, llmAvailable, reqs>>

FineNext ==
  \/ \E userId \in Users : HandleHomeworkRequestCall(userId)
  \/ FineClockTick

FineSpec == Init /\ [][FineNext]_vars

(***************************************************************************)
(* The Deterministic Classifier called on its own                          *)
(***************************************************************************)
\* the words and phrases messages are made of here: keywords of the rules of
\* parseIntent, and a word that is none
Phrases ==
  { <<"p", "e", "r", "c", "e", "n", "t">>,
    <<"h", "o", "w", " ", "m", "u", "c", "h">>,
    <<"%">>,
    <<"m", "i", "s", "s", "i", "n", "g">>,
    <<"i", "n", "c", "o", "m", "p", "l", "e", "t", "e">>,
    <<"d", "o", "n", "e">>,
    <<"g", "r", "a", "d", "e">>,
    <<"m", "a", "t", "h">>,
    <<"o", "v", "e", "r", "d", "u", "e">>,
    <<"z", "e", "r", "o">>,
    <<"p", "r", "i", "o", "r", "i", "t", "y">>,
    <<"a", "t", " ", "r", "i", "s", "k">>,
    <<"d", "u", "e">>,
    <<"h", "e", "l", "p">>,
    <<"h", "e", "l", "l", "o">>,
    <<"o", "k">> }

\* the messages parseIntent is called with: one phrase, two phrases with a
\* space between, the messages of the chat, and the documented example
ClassifierMessages ==
  Phrases
    \cup {p1 \o <<" ">> \o p2 : p1 \in Phrases, p2 \in Phrases}
    \cup {CharsOf(message) : message \in Messages}
    \cup {CharsOf("what percentage of my work is missing?")}

\* parseIntent for each of them
classifiedOf == [message \in ClassifierMessages |-> parseIntent(message)]

\* mod.ts:71-196  parseIntent(message) is called; it reads nothing but its
\* argument and changes nothing
ParseIntentCall(message) ==
  /\ ev' = [op |-> "parseIntent", message |-> message,
            parsed |-> classifiedOf[message]]
  /\ UNCHANGED <<now, userState, streak, lock, llmAvailable, reqs>>

ClassifierNext == \E message \in ClassifierMessages : ParseIntentCall(message)

ClassifierSpec == Init /\ [][ClassifierNext]_vars

(***************************************************************************)
(* dates.ts on its own: extractDateRange at a current date and time, and   *)
(* isWithinRange of a date in the range it returned                        *)
(***************************************************************************)
\* the texts: one or more for every branch of extractDateRange
DateQueries ==
  {<<"2", "0", "2", "6">>,
   <<"i", "n", " ", "2", "0", "0", "0">>,
   <<"G", "r", "a", "d", "e", "s", " ", "f", "o", "r", " ", "2", "0", "9", "9">>,
   <<"w", "h", "a", "t", " ", "i", "s", " ", "d", "u", "e", " ", "t", "o", "d", "a", "y">>,
   <<"t", "o", "m", "o", "r", "r", "o", "w">>,
   <<"y", "e", "s", "t", "e", "r", "d", "a", "y">>,
   <<"t", "h", "i", "s", " ", "w", "e", "e", "k">>,
   <<"n", "e", "x", "t", " ", "w", "e", "e", "k">>,
   <<"l", "a", "s", "t", " ", "w", "e", "e", "k">>,
   <<"t", "h", "i", "s", " ", "m", "o", "n", "t", "h">>,
   <<"n", "e", "x", "t", " ", "m", "o", "n", "t", "h">>,
   <<"d", "u", "e", " ", "i", "n", " ", "m", "a", "r", "c", "h">>,
   <<"d", "e", "c">>,
   <<"m", "a", "y">>,
   <<"f", "a", "l", "l">>,
   <<"s", "p", "r", "i", "n", "g">>,
   <<"t", "h", "i", "s", " ", "s", "e", "m", "e", "s", "t", "e", "r">>,
   <<"l", "a", "s", "t", " ", "s", "e", "m", "e", "s", "t", "e", "r">>,
   <<"n", "e", "x", "t", " ", "0", " ", "d", "a", "y", "s">>,
   <<"n", "e", "x", "t", " ", "7", " ", "d", "a", "y", "s">>,
   <<"n", "e", "x", "t", " ", "1", "0", "0", "0", "0", "0", "0", "0", "0", " ", "d", "a", "y", "s">>,
   <<"h", "e", "l", "l", "o">>}

\* the years the texts name
QueryYears == {2000, 2026, 2099}

\* the current date and time: the middle of every month of 2026, the ends
\* of the year, a leap day, a month's last day, a Sunday and a Saturday
DateNows ==
  {NewDate(2026, m, 15, 12, 0, 0, 0) : m \in 0..11}
    \cup {NewDate(2026, 0, 1, 0, 0, 0, 0), NewDate(2026, 11, 31, 23, 59, 59, 999),
          NewDate(2028, 1, 29, 8, 30, 0, 0), NewDate(2026, 0, 31, 18, 0, 0, 0),
          NewDate(2026, 10, 1, 9, 0, 0, 0), NewDate(2026, 10, 7, 23, 0, 0, 1)}

\* the dates asked of isWithinRange: around both ends of every named year
DateProbes ==
  {NullDate}
    \cup UNION {{NewDate(y - 1, 11, 31, 23, 59, 59, 999), NewDate(y, 0, 1, 0, 0, 0, 0),
                 NewDate(y, 5, 15, 12, 0, 0, 0), NewDate(y, 11, 31, 23, 59, 59, 0),
                 NewDate(y, 11, 31, 23, 59, 59, 1), NewDate(y, 11, 31, 23, 59, 59, 999),
                 NewDate(y + 1, 0, 1, 0, 0, 0, 0)} : y \in QueryYears}

dateRangeOf ==
  [query \in DateQueries |-> [t \in DateNows |-> extractDateRangeAt(query, t)]]

ExtractDateRangeCall(query, t) ==
  /\ ev' = [op |-> "extractDateRange", query |-> query, at |-> t,
            range |-> dateRangeOf[query][t]]
  /\ UNCHANGED <<now, userState, streak, lock, llmAvailable, reqs>>

\* filterByDateRange asks isWithinRange of an item's dueAt when the range is
\* not null
IsWithinRangeCall(date) ==
  /\ ev.op \in {"extractDateRange", "isWithinRange"}
  /\ ev.range # NullRange
  /\ ev' = [op |-> "isWithinRange", query |-> ev.query, at |-> ev.at,
            range |-> ev.range, date |-> date,
            within |-> isWithinRange(date, ev.range)]
  /\ UNCHANGED <<now, userState, streak, lock, llmAvailable, reqs>>

DateNext ==
  \/ \E query \in DateQueries, t \in DateNows : ExtractDateRangeCall(query, t)
  \/ \E date \in DateProbes : IsWithinRangeCall(date)

DateSpec == Init /\ [][DateNext]_vars

(***************************************************************************)
(* llm/client.ts and llm/intent.ts: the NLU Intent Resolver                *)
(***************************************************************************)
\* What the assistant's reply text parses to (JSON.parse of the trimmed
\* text): not JSON at all, the JSON value null, or an object whose fields
\* are given as JSON values.  A field the object lacks is "undefined"; a
\* string is named by its text, and CharsOf gives its characters.
JNull == [t |-> "null"]
JUndefined == [t |-> "undefined"]
JStr(v) == [t |-> "string", v |-> v]
JNum(v) == [t |-> "number", v |-> v]
JObj == [t |-> "object"]

Reply(intent, dateFilter, analysis, response) ==
  [json |-> "object", intent |-> intent, dateFilter |-> dateFilter,
   analysis |-> analysis, response |-> response]

\* the replies the language model is taken to give
NLUReplies ==
  { [json |-> "malformed"],
    [json |-> "null"],
    Reply(JStr("blocked"), JNull, JNull, JStr("I can't help with that.")),
    Reply(JStr("grades"), JNull, JNull, JNull),
    Reply(JStr("grades"), JNum(2026), JNull, JNull),
    Reply(JStr("due_soon"), JStr("tomorrow"), JNull, JNull),
    Reply(JStr("due_soon"), JStr("soon"), JNull, JNull),
    Reply(JStr("analysis"), JNull, JObj, JNull),
    Reply(JStr("analysis"), JNull, JNull, JNull),
    Reply(JStr("help"), JNull, JNull, JNull),
    Reply(JStr("greeting"), JNull, JNull, JStr("Hello.")),
    Reply(JStr("greeting"), JStr(""), JNull, JStr("")),
    Reply(JStr("unknown"), JNull, JNull, JNull),
    Reply(JUndefined, JUndefined, JUndefined, JUndefined) }

\* client.ts:132-181  how a chat() call ends: with the assistant's text, or
\* by throwing (non-2xx status, a body that is no JSON, the abort after the
\* timeout, a failed fetch)
ChatFailures == {"http_error", "bad_body", "timeout", "network_error"}
ChatOutcomes ==
  {[kind |-> "ok", content |-> c] : c \in NLUReplies}
    \cup {[kind |-> k, content |-> [json |-> "none"]] : k \in ChatFailures}

\* JavaScript truthiness of a JSON value
JTruthy(j) ==
  CASE j.t = "null" -> FALSE
    [] j.t = "undefined" -> FALSE
    [] j.t = "string" -> j.v # ""
    [] j.t = "number" -> j.v # 0
    [] j.t = "object" -> TRUE

\* intent.ts:123-128  the value returned from the catch block
UnknownLLMIntent ==
  [threw |-> FALSE, intent |-> "unknown", dateRange |-> NoDateRange,
   analysis |-> FALSE, response |-> "null"]

\* no LLMIntent: parseIntentWithLLM was not called, or it threw
NoLLMIntent == [UnknownLLMIntent EXCEPT !.intent = "none"]

\* an exception leaving parseIntentWithLLM
Thrown == [UnknownLLMIntent EXCEPT !.threw = TRUE]

\* intent.ts:96-130  parseIntentWithLLM, given how its chat() call ended.
\* analysis: whether the field is truthy; response: the text, or "null"
parseIntentWithLLM_uncaught(outcome) ==
  IF outcome.kind # "ok" THEN Thrown
  ELSE LET parsed == outcome.content
       IN IF parsed.json = "malformed" THEN Thrown
          ELSE IF parsed.json = "null" THEN Thrown
          ELSE IF JTruthy(parsed.dateFilter) /\ parsed.dateFilter.t # "string"
          THEN Thrown
          ELSE [ threw |-> FALSE,
                 intent |-> IF JTruthy(parsed.intent) THEN parsed.intent.v
                            ELSE "unknown",
                 dateRange |-> IF JTruthy(parsed.dateFilter)
                               THEN extractDateRange(CharsOf(parsed.dateFilter.v))
                               ELSE NoDateRange,
                 analysis |-> JTruthy(parsed.analysis),
                 response |-> IF JTruthy(parsed.response)
                              THEN parsed.response.v ELSE "null" ]
parseIntentWithLLM(outcome) ==
  IF outcome.kind # "ok" THEN UnknownLLMIntent
  ELSE LET parsed == outcome.content
       IN \* JSON.parse throws on text that is no JSON
          IF parsed.json = "malformed" THEN UnknownLLMIntent
          \* `parsed.dateFilter` of null throws a TypeError
          ELSE IF parsed.json = "null" THEN UnknownLLMIntent
          \* extractDateRange calls toLowerCase on a value that has none
          ELSE IF JTruthy(parsed.dateFilter) /\ parsed.dateFilter.t # "string"
          THEN UnknownLLMIntent
          ELSE [ threw |-> FALSE,
                 intent |-> IF JTruthy(parsed.intent) THEN parsed.intent.v
                            ELSE "unknown",
                 dateRange |-> IF JTruthy(parsed.dateFilter)
                               THEN extractDateRange(CharsOf(parsed.dateFilter.v))
                               ELSE NoDateRange,
                 analysis |-> JTruthy(parsed.analysis),
                 response |-> IF JTruthy(parsed.response)
                              THEN parsed.response.v ELSE "null" ]

\* parseIntentWithLLM for each way its chat() call can end
llmIntentOf == [outcome \in ChatOutcomes |-> parseIntentWithLLM(outcome)]

(***************************************************************************)
(* web/server.ts: the chat pipeline                                        *)
(***************************************************************************)
\* isHomeworkRequest and parseIntent for each message
\* a message for every IntentType of parseIntent (intent/mod.ts:12-23)
KeywordQueries ==
  { "what percentage of my work is missing?", "how am i doing in math",
    "What are my grades?", "any missing work", "do i have any zeros",
    "what should i work on first", "am i at risk", "what's due this week?",
    "help", "hello", "thanks" }

homeworkOf ==
  [message \in Messages \cup BlockedQueries \cup KeywordQueries |->
     isHomeworkRequest(CharsOf(message))]
parsedOf ==
  [message \in Messages \cup BlockedQueries \cup KeywordQueries |->
     parseIntent(CharsOf(message))]

\* the handleChat calls that can be waiting at an await at the same time;
\* a call that returns without awaiting (a refusal, a greeting) is not
\* held back by it
MaxInFlight == 1

\* requests arrive during the first MaxChatTicks ticks
MaxChatTicks == 2
LastChatTime == StartTime + MaxChatTicks * Tick
\* the clock runs on until a lockout begun at LastChatTime has ended
MaxChatNow == LastChatTime + LOCKOUT_DURATION_MS + Tick

\* the users chatting; server.ts:563 gives a request without userId this one
ChatUsers == {"default-user"}

GREETING_RESPONSES ==
  { "Hello. I am C.A.R.L., your Canvas Assignment Reminder Liaison. How can I help you track your assignments?",
    "Greetings. I'm here to help you stay on top of your schoolwork. What would you like to know?",
    "Hello. I'm ready to assist with assignment tracking. What do you need?" }

UNKNOWN_RESPONSES ==
  { "I'm not sure I understand. I can help you check grades, find missing assignments, or see what's due soon.",
    "My capabilities are limited to assignment tracking. Try asking about what's due or your grades.",
    "I don't follow. Would you like to know about upcoming assignments or your current grades?" }

CONNECTIVITY_FAILURE ==
  "I'm having trouble connecting to Canvas right now. Please try again later."
ANALYSIS_FAILURE == "I'm having trouble analyzing that data right now."

\* server.ts:244-246
getHelpMessage(llm) ==
  IF llm THEN "HELP_MESSAGE_ENHANCED" ELSE "HELP_MESSAGE_BASIC"

\* a ChatResponse; a field the object lacks reads FALSE / "none"
ChatResponse(message, data, lockedOut, error, dateContext) ==
  [message |-> message, data |-> data, lockedOut |-> lockedOut,
   error |-> error, dateContext |-> dateContext]

TextResponse(message) == ChatResponse(message, "none", FALSE, FALSE, NoDateRange)

ErrorResponse_noFlag ==
  ChatResponse(CONNECTIVITY_FAILURE, "none", FALSE, FALSE, NoDateRange)
ErrorResponse == ChatResponse(CONNECTIVITY_FAILURE, "none", FALSE, TRUE, NoDateRange)

\* the LMS operations a dispatch on `intent` awaits (together, Promise.all)
LmsOpsFor(intent) ==
  CASE intent = "grades"   -> {"getCoursesWithGrades"}
    [] intent = "missing"  -> {"getMissingAssignments", "getUnsubmittedPastDue"}
    [] intent = "zeros"    -> {"getMissingAssignments", "getUnsubmittedPastDue",
                               "getZeroGradeAssignments"}
    [] intent = "due_soon" -> {"getDueThisWeek"}
    \* fetchAllData, server.ts:263-279
    [] intent = "analysis" -> {"getCoursesWithGrades", "getMissingAssignments",
                               "getUnsubmittedPastDue", "getDueThisWeek"}
    [] OTHER -> {}

DataIntents == {"grades", "missing", "zeros", "due_soon"}

\* the response the format* functions build from the fetched records; the
\* text is named after the function, the records are not modelled
FormattedResponse(intent, dateRange) ==
  CASE intent = "grades" ->
         ChatResponse("formatGradesResponse", "courses", FALSE, FALSE, NoDateRange)
    [] intent = "missing" ->
         ChatResponse("formatMissingResponse", "assignments", FALSE, FALSE, dateRange)
    [] intent = "zeros" ->
         ChatResponse("formatZerosResponse", "assignments", FALSE, FALSE, dateRange)
    [] intent = "due_soon" ->
         ChatResponse("formatDueResponse", "todo", FALSE, FALSE, dateRange)

\* server.ts:287-313  which way handleChat goes
FirstStep_lockUnchecked(locked, homework, llm) ==
  IF homework THEN "refuse"
  ELSE IF llm THEN "nlu"
  ELSE "keyword"
FirstStep_llmFirst(locked, homework, llm) ==
  IF locked THEN "locked"
  ELSE IF llm THEN "nlu"
  ELSE IF homework THEN "refuse"
  ELSE "keyword"
FirstStep(locked, homework, llm) ==
  IF locked THEN "locked"
  ELSE IF homework THEN "refuse"
  ELSE IF llm THEN "nlu"
  ELSE "keyword"

\* the readings a later Date.now() of the same handler can give: the clock
\* may have moved on since the handler's earlier reading t
LaterReadings(t) == {t} \cup {t2 \in {t + Tick} : t2 <= LastChatTime}

\* a request handleChat has just been called with.  calls: the functions
\* and LMS operations called for it so far, in order; sentUserId: the userId
\* of the HTTP body it came in, the userId itself for a direct call
NewRequest(userId, message) ==
  [pc |-> "start", userId |-> userId, message |-> message,
   lockedOutCheck |-> FALSE, calls |-> <<>>, nlu |-> "none",
   llmIntent |-> "none", llm |-> NoLLMIntent, intent |-> "none",
   dateRange |-> NoDateRange, lmsFailed |-> FALSE, phase |-> "none",
   since |-> Null, timer |-> Null, sentUserId |-> JStr(userId)]

\* client.ts:144  `config.timeout || 30000`, with the default configuration
DEFAULT_TIMEOUT_MS == 30000

\* client.ts:132-163  chat() is called when the clock reads t: the abort
\* timer is armed and the fetch is awaited.  since: when the call began;
\* timer: when the armed timer is due, Null when none is armed
StartChat(req, t) ==
  [req EXCEPT !.phase = "fetch", !.since = t, !.timer = t + DEFAULT_TIMEOUT_MS]

\* the chat() call of the request is over
EndChat(req) == [req EXCEPT !.phase = "none", !.since = Null, !.timer = Null]

NoRequest == EmptyBag
One(req) == SetToBag({req})

\* the request returns `response`; waiting is the bag entry it leaves, st
\* the map and t the clock afterwards
Return(waiting, req, response, st, t) ==
  /\ reqs' = reqs (-) waiting
  /\ userState' = st
  /\ now' = t
  /\ ev' = [ op |-> "handleChat", userId |-> req.userId, message |-> req.message,
             lockedOutCheck |-> req.lockedOutCheck, calls |-> req.calls,
             nlu |-> req.nlu, llmIntent |-> req.llmIntent, llm |-> req.llm,
             intent |-> req.intent, dateRange |-> req.dateRange,
             lmsFailed |-> req.lmsFailed, sentUserId |-> req.sentUserId,
             response |-> response ]
  /\ UNCHANGED <<streak, lock>>

\* the request waits at an await
Await(waiting, req, st) ==
  /\ reqs' = (reqs (-) waiting) (+) One(req)
  /\ BagCardinality(reqs') <= MaxInFlight
  /\ userState' = st
  /\ UNCHANGED <<now, ev, streak, lock>>

\* the clock can come to read t: an armed timer fires before the clock
\* passes the instant it is due
ClockMayRead(t) ==
  \A req \in BagToSet(reqs) : req.timer = Null \/ t <= req.timer

\* server.ts:289, 295, 331  handleHomeworkRequest(userId), its result returned
Refuse(waiting, req, st) ==
  \E t \in {t2 \in LaterReadings(now) : t2 = now \/ ClockMayRead(t2)} :
    LET r == handleHomeworkRequest(st, req.userId, t)
        req1 == [req EXCEPT !.calls = Append(@, "handleHomeworkRequest")]
    IN \E response \in ResponsesOf(r.tier) :
         Return(waiting, req1,
                ChatResponse(response, "none", r.lockedOut, FALSE, NoDateRange),
                r.st, t)

\* server.ts:438-529  handleKeywordIntent up to its first await
KeywordIntent(waiting, req, st) ==
  LET parsed == parsedOf[req.message]
      req1 == [req EXCEPT !.calls = Append(@, "handleKeywordIntent"),
                          !.intent = parsed.type,
                          !.dateRange = parsed.dateRange]
  IN CASE parsed.type \in DataIntents ->
            Await(waiting, [req1 EXCEPT !.pc = "lms",
                               !.calls = Append(@, LmsOpsFor(parsed.type))], st)
       [] parsed.type = "help" ->
            Return(waiting, req1, TextResponse(getHelpMessage(llmAvailable)), st, now)
       [] parsed.type = "greeting" ->
            \E response \in GREETING_RESPONSES :
              Return(waiting, req1, TextResponse(response), st, now)
       [] OTHER ->
            \E response \in UNKNOWN_RESPONSES :
              Return(waiting, req1, TextResponse(response), st, now)

\* server.ts:322-324  `llmDateRange || ourDateRange`
DispatchDateRange_oursFirst(llmDateRange, ourDateRange) ==
  IF ourDateRange # NoDateRange THEN ourDateRange ELSE llmDateRange
DispatchDateRange(llmDateRange, ourDateRange) ==
  IF llmDateRange # NoDateRange THEN llmDateRange ELSE ourDateRange

\* server.ts:327-424  the case of the switch on intent.intent that answers;
\* "null": handleLLMIntent returns null
DispatchOf_blockedIgnored(llm) ==
  CASE llm.intent \in DataIntents \cup {"help", "greeting"} -> llm.intent
    [] llm.intent = "analysis" /\ llm.analysis -> "analysis"
    [] OTHER -> "null"
DispatchOf_classifierFirst(llm) ==
  CASE llm.intent \in {"blocked", "help", "greeting"} -> llm.intent
    [] llm.intent = "analysis" /\ llm.analysis -> "analysis"
    [] OTHER -> "null"
DispatchOf_unknownAsHelp(llm) ==
  CASE llm.intent \in {"blocked", "greeting"} \cup DataIntents -> llm.intent
    [] llm.intent = "analysis" /\ llm.analysis -> "analysis"
    [] OTHER -> "help"
DispatchOf(llm) ==
  CASE llm.intent \in {"blocked", "help", "greeting"} \cup DataIntents -> llm.intent
    [] llm.intent = "analysis" /\ llm.analysis -> "analysis"
    [] OTHER -> "null"

\* server.ts:320-433  handleLLMIntent up to its first await; a null result
\* makes handleChat go on to handleKeywordIntent (server.ts:304-313)
LLMIntent(waiting, req, llm) ==
  LET ourDateRange == parsedOf[req.message].dateRange
      dateRange == DispatchDateRange(llm.dateRange, ourDateRange)
      req1 == [req EXCEPT !.calls = Append(@, "handleLLMIntent"),
                          !.llmIntent = llm.intent, !.llm = llm]
      dispatched == [req1 EXCEPT !.intent = llm.intent, !.dateRange = dateRange]
      case == DispatchOf(llm)
  IN CASE case = "blocked" -> Refuse(waiting, dispatched, userState)
       [] case \in DataIntents \cup {"analysis"} ->
            Await(waiting, [dispatched EXCEPT !.pc = "lms",
                              !.calls = Append(@, LmsOpsFor(case))], userState)
       [] case = "help" ->
            Return(waiting, dispatched, TextResponse(getHelpMessage(llmAvailable)),
                   userState, now)
       [] case = "greeting" /\ llm.response # "null" ->
            Return(waiting, dispatched, TextResponse(llm.response), userState, now)
       [] case = "greeting" /\ llm.response = "null" ->
            \E response \in GREETING_RESPONSES :
              Return(waiting, dispatched, TextResponse(response), userState, now)
       [] OTHER -> KeywordIntent(waiting, req1, userState)

\* server.ts:284-314  handleChat is called and runs up to its first await
HandleChatSent(sentUserId, userId, message) ==
  /\ now <= LastChatTime
  /\ LET locked == isLockedOut(userState, userId, now)
         st == getState(userState, userId)
         step == FirstStep(locked, homeworkOf[message], llmAvailable)
         req == [NewRequest(userId, message) EXCEPT
                   !.sentUserId = sentUserId,
                   !.lockedOutCheck = locked,
                   !.calls = IF step = "locked" THEN <<"isLockedOut">>
                             ELSE <<"isLockedOut", "isHomeworkRequest">>]
     IN CASE step \in {"locked", "refuse"} -> Refuse(NoRequest, req, st)
          [] step = "nlu" ->
               Await(NoRequest, StartChat([req EXCEPT !.pc = "nlu",
                                   !.calls = Append(@, "parseIntentWithLLM")], now), st)
          [] step = "keyword" -> KeywordIntent(NoRequest, req, st)
  /\ UNCHANGED llmAvailable

HandleChat(userId, message) == HandleChatSent(JStr(userId), userId, message)

\* client.ts:157-164  the fetch of a chat() call resolves (the response's
\* status and headers are in): clearTimeout, then the body is awaited
\* (response.text() or response.json())
FetchResolves(req) ==
  /\ now <= LastChatTime
  /\ BagIn(req, reqs)
  /\ req.phase = "fetch"
  /\ Await(One(req), [req EXCEPT !.phase = "body", !.timer = Null], userState)
  /\ UNCHANGED llmAvailable

\* how a chat() call in the given phase can end: the abort of the timer and
\* a network error reject the fetch; a network error can also break the
\* reading of the body; the other outcomes need the body read to its end
CanEnd(phase, kind) ==
  CASE kind = "timeout" -> phase = "fetch"
    [] kind = "network_error" -> phase \in {"fetch", "body"}
    [] OTHER -> phase = "body"

\* the chat() call of parseIntentWithLLM ends; handleChat resumes.  An
\* exception from parseIntentWithLLM is caught at server.ts:306.  nlu: how
\* the call ended: a failure of chat(), or what the reply text parsed to
NLUReturns(req, outcome) ==
  /\ now <= LastChatTime
  /\ BagIn(req, reqs)
  /\ req.pc = "nlu"
  /\ CanEnd(req.phase, outcome.kind)
  /\ LET llm == llmIntentOf[outcome]
         req1 == [EndChat(req) EXCEPT !.nlu = IF outcome.kind = "ok"
                                      THEN outcome.content.json
                                      ELSE outcome.kind]
     IN IF llm.threw
        THEN KeywordIntent(One(req), req1, userState)
        ELSE LLMIntent(One(req), req1, llm)
  /\ UNCHANGED llmAvailable

\* the awaited LMS operations end: all fulfilled (ok), or one rejected
LMSReturns(req, ok) ==
  /\ now <= LastChatTime
  /\ BagIn(req, reqs)
  /\ req.pc = "lms"
  /\ IF ~ok
     THEN \* the catch blocks, server.ts:426-432 and 522-528
          Return(One(req), [req EXCEPT !.lmsFailed = TRUE], ErrorResponse,
                 userState, now)
     ELSE IF req.intent = "analysis"
     THEN Await(One(req), StartChat([req EXCEPT !.pc = "analysis",
                             !.calls = Append(@, "performAnalysis")], now),
                userState)
     ELSE Return(One(req), req, FormattedResponse(req.intent, req.dateRange),
                 userState, now)
  /\ UNCHANGED llmAvailable

\* intent.ts:135-169  the chat() call of performAnalysis ends
AnalysisReturns(req, succeeded) ==
  /\ now <= LastChatTime
  /\ BagIn(req, reqs)
  /\ req.pc = "analysis"
  /\ succeeded => req.phase = "body"
  /\ Return(One(req), EndChat(req),
            TextResponse(IF succeeded THEN "the assistant's answer"
                         ELSE ANALYSIS_FAILURE),
            userState, now)
  /\ UNCHANGED llmAvailable

\* time passes while the server runs
ChatClockTick ==
  /\ now + Tick <= MaxChatNow
  /\ ClockMayRead(now + Tick)
  /\ now' = now + Tick
  /\ UNCHANGED <<userState, ev, streak, lock, llmAvailable, reqs>>

\* server.ts:36, 966-977  llmAvailable is false until main() has found the
\* Ollama server reachable; it is not written after startup
ChatInit ==
  /\ now = StartTime
  /\ userState = <<>>
  /\ ev = [op |-> "none"]
  /\ streak = [u \in Users |-> [open |-> TRUE, replies |-> <<>>, last |-> 0]]
  /\ lock = [u \in Users |-> [at |-> Null, after |-> FALSE]]
  /\ llmAvailable \in BOOLEAN
  /\ reqs = NoRequest

ChatNext ==
  \/ \E userId \in ChatUsers, message \in Messages : HandleChat(userId, message)
  \/ \E req \in BagToSet(reqs) : FetchResolves(req)
  \/ \E req \in BagToSet(reqs), outcome \in ChatOutcomes : NLUReturns(req, outcome)
  \/ \E req \in BagToSet(reqs), ok \in BOOLEAN : LMSReturns(req, ok)
  \/ \E req \in BagToSet(reqs), succeeded \in BOOLEAN : AnalysisReturns(req, succeeded)
  \/ ChatClockTick

ChatSpec == ChatInit /\ [][ChatNext]_vars

\* client.ts:141-145, 175-177  the armed timer of a chat() call fires: the
\* fetch is aborted and chat() throws "Ollama request timed out"
TimerFires ==
  \E req \in BagToSet(reqs) :
    /\ req.timer # Null
    /\ \/ NLUReturns(req, [kind |-> "timeout", content |-> [json |-> "none"]])
       \/ AnalysisReturns(req, FALSE)

\* the server's clock does not stop, and a timer that is due fires
FairChatSpec == ChatSpec /\ WF_vars(ChatClockTick) /\ WF_vars(TimerFires)

\* the chat pipeline as far as refusals go: a message the Safety Gate stops
\* and one it lets through; the NLU call times out or the language model
\* says blocked, so that no LMS operation and no analysis is asked for
RefusalMessages == {"write my essay", "hello"}
RefusalOutcomes ==
  {outcome \in ChatOutcomes :
     \/ outcome.kind = "timeout"
     \/ /\ outcome.kind = "ok" /\ outcome.content.json = "object"
        /\ outcome.content.intent = JStr("blocked")}

RefusalNext ==
  \/ \E userId \in ChatUsers, message \in RefusalMessages : HandleChat(userId, message)
  \/ \E req \in BagToSet(reqs) : FetchResolves(req)
  \/ \E req \in BagToSet(reqs), outcome \in RefusalOutcomes : NLUReturns(req, outcome)
  \/ ChatClockTick

FairRefusalSpec ==
  ChatInit /\ [][RefusalNext]_vars /\ WF_vars(ChatClockTick) /\ WF_vars(TimerFires)

\* the chat pipeline with the LMS awaited, its clock and its timers running:
\* fetch() of the LMS client (api/client.ts:381, 423) is given no signal and
\* no timer is armed for it, so nothing but the LMS ends the wait
LMSMessages == {"What are my grades?", "what's due this week?", "hello"}
LMSNext ==
  \/ \E userId \in ChatUsers, message \in LMSMessages : HandleChat(userId, message)
  \/ \E req \in BagToSet(reqs) : FetchResolves(req)
  \/ \E req \in BagToSet(reqs), outcome \in RefusalOutcomes : NLUReturns(req, outcome)
  \/ \E req \in BagToSet(reqs), ok \in BOOLEAN : LMSReturns(req, ok)
  \/ ChatClockTick

FairLMSSpec ==
  ChatInit /\ [][LMSNext]_vars /\ WF_vars(ChatClockTick) /\ WF_vars(TimerFires)

\* the chat pipeline sent a message of every IntentType
KeywordNext ==
  \/ \E userId \in ChatUsers, message \in KeywordQueries : HandleChat(userId, message)
  \/ \E req \in BagToSet(reqs) : FetchResolves(req)
  \/ \E req \in BagToSet(reqs), outcome \in RefusalOutcomes : NLUReturns(req, outcome)
  \/ \E req \in BagToSet(reqs), ok \in BOOLEAN : LMSReturns(req, ok)
  \/ ChatClockTick

KeywordSpec == ChatInit /\ [][KeywordNext]_vars

\* the chat pipeline sent the requests the documentation lists as blocked
BlockedNext ==
  \/ \E userId \in ChatUsers, message \in BlockedQueries : HandleChat(userId, message)
  \/ \E req \in BagToSet(reqs) : FetchResolves(req)
  \/ \E req \in BagToSet(reqs), outcome \in RefusalOutcomes : NLUReturns(req, outcome)
  \/ ChatClockTick

BlockedSpec == ChatInit /\ [][BlockedNext]_vars

(***************************************************************************)
(* web/server.ts: the HTTP handler of POST /api/chat                       *)
(***************************************************************************)
\* the messages and the bodies POSTed: text that is no JSON, the JSON null,
\* and objects whose message is absent (undefined), null, empty, a number or
\* a text, with and without a userId
HandlerMessages == {"write my essay", "What are my grades?"}
Bodies ==
  {[json |-> "invalid"], [json |-> "null"]} \cup
  {[json |-> "object", message |-> message, userId |-> userId] :
     message \in {JUndefined, JNull, JStr(""), JNum(5)}
                   \cup {JStr(text) : text \in HandlerMessages},
     userId \in {JUndefined, JStr("test-user")}}

\* server.ts:556  the negation of `!body.message || typeof body.message !== "string"`
ValidMessage_anyString(message) == message.t = "string"
ValidMessage(message) == JTruthy(message) /\ message.t = "string"

\* server.ts:563  `body.userId || "default-user"`
UserIdOf_unnamed(userId) == IF JTruthy(userId) THEN userId.v ELSE "test-user"
UserIdOf(userId) == IF JTruthy(userId) THEN userId.v ELSE "default-user"

\* server.ts:557-560, 569-573  the response with status 400
Reject(body, error) ==
  /\ ev' = [op |-> "handler", body |-> body, status |-> 400, error |-> error]
  /\ UNCHANGED <<now, userState, streak, lock, llmAvailable, reqs>>

\* server.ts:553-574  a POST to /api/chat with the given body, up to the
\* first await of handleChat; req.json() throws on text that is no JSON and
\* `body.message` throws on null, both caught at server.ts:569
Handler(body) ==
  IF body.json # "object" THEN Reject(body, "Invalid request")
  ELSE IF ~ValidMessage(body.message) THEN Reject(body, "Message is required")
  ELSE HandleChatSent(body.userId, UserIdOf(body.userId), body.message.v)

HandlerNext ==
  \/ \E body \in Bodies : Handler(body)
  \/ \E req \in BagToSet(reqs) : FetchResolves(req)
  \/ \E req \in BagToSet(reqs), outcome \in RefusalOutcomes : NLUReturns(req, outcome)
  \/ \E req \in BagToSet(reqs), ok \in BOOLEAN : LMSReturns(req, ok)
  \/ ChatClockTick

HandlerSpec == ChatInit /\ [][HandlerNext]_vars

(***************************************************************************)
(* Claims                                                                  *)
(***************************************************************************)
ExpectedEscalation ==
  << [tier |-> "first",   lockedOut |-> FALSE],
     [tier |-> "second",  lockedOut |-> FALSE],
     [tier |-> "third",   lockedOut |-> FALSE],
     [tier |-> "lockout", lockedOut |-> TRUE] >>

\* C1: for a user with no prior RefusalState, the first four consecutive
\* handleHomeworkRequest calls, each within 10 minutes of the one before,
\* are answered first tier, second tier, third tier, lockout, with
\* lockedOut false on the first three and true on the fourth.
C1_EscalationOrder ==
  \A u \in Users :
    streak[u].open =>
      \A i \in 1..Len(streak[u].replies) :
        streak[u].replies[i] = ExpectedEscalation[i]

\* a fresh user has made four such calls, the third 10 minutes after the second
C1_Witness ==
  \E u \in Users :
    /\ streak[u].open /\ Len(streak[u].replies) = 4
    /\ ev.op = "handleHomeworkRequest" /\ ev.userId = u
    /\ ev.at - ev.prev.lastAttempt = TenMinutes

\* C4: isLockedOut is false for a user who was never given a lockout reply
\* (so for one who never committed a violation), true at every instant from
\* the lockout reply at time T until strictly before T + 5 minutes, and false
\* from T + 5 minutes on, until a later lockout reply.
C4_LockedExactlyFiveMinutes ==
  \A u \in Users :
    /\ lock[u].at = Null => ~isLockedOut(userState, u, now)
    /\ lock[u].at # Null =>
         /\ userState[u].lockedUntil = lock[u].at + FiveMinutes
         /\ isLockedOut(userState, u, now) <=> now < lock[u].at + FiveMinutes

\* a user locked out earlier is, exactly 5 minutes later, no longer locked
\* out while the other user, locked out since, still is
C4_Witness ==
  \E u, v \in Users :
    /\ lock[u].at # Null /\ now = lock[u].at + FiveMinutes
    /\ ~isLockedOut(userState, u, now)
    /\ lock[v].at = now /\ isLockedOut(userState, v, now)

\* C5: the first violation handled after the lockout window has elapsed is
\* answered first tier with lockedOut false and leaves attempts = 1, whatever
\* calls were made during the lockout.
C5_FirstTierAfterLockout ==
  \A u \in Users :
    ( /\ ev.op = "handleHomeworkRequest" /\ ev.userId = u
      /\ ev.lockBefore.at # Null /\ ~ev.lockBefore.after
      /\ ev.at >= ev.lockBefore.at + FiveMinutes )
    => /\ ev.response \in REFUSAL_RESPONSES.first
       /\ ev.lockedOut = FALSE
       /\ userState[u].attempts = 1

\* the violation comes exactly when the window ends
C5_Witness ==
  /\ ev.op = "handleHomeworkRequest"
  /\ ev.lockBefore.at # Null /\ ~ev.lockBefore.after
  /\ ev.at = ev.lockBefore.at + FiveMinutes
  /\ ev.response \in REFUSAL_RESPONSES.first
  /\ userState[ev.userId].attempts = 1

\* C6: a handleHomeworkRequest call made while the user is locked out
\* (now < lockedUntil) leaves attempts, lastAttempt and lockedUntil as they
\* were.
C6_LockedCallChangesNothing ==
  ( /\ ev.op = "handleHomeworkRequest"
    /\ ev.prev.lockedUntil # Null /\ ev.at < ev.prev.lockedUntil )
  => userState[ev.userId] = ev.prev

C6_Witness ==
  /\ ev.op = "handleHomeworkRequest"
  /\ ev.prev.lockedUntil # Null /\ ev.at < ev.prev.lockedUntil
  /\ ev.response = STILL_LOCKED /\ ev.lockedOut

\* C7: a violation by a user who is not locked out, more than 10 minutes
\* after lastAttempt, is answered first tier and leaves attempts = 1 whatever
\* attempts was; one at most 10 minutes after lastAttempt is counted on top
\* of attempts (the fourth one locking the user out).
C7_ResetAfterTenMinutes ==
  ( /\ ev.op = "handleHomeworkRequest"
    /\ ~(ev.prev.lockedUntil # Null /\ ev.at < ev.prev.lockedUntil) )
  => LET u == ev.userId
         counted == ev.prev.attempts + 1
     IN IF ev.at - ev.prev.lastAttempt > TenMinutes
        THEN /\ ev.response \in REFUSAL_RESPONSES.first
             /\ userState[u].attempts = 1
        ELSE IF counted < 4
        THEN /\ userState[u].attempts = counted
             /\ TierOfResponse(ev.response) = ExpectedEscalation[counted].tier
        ELSE /\ ev.response \in REFUSAL_RESPONSES.lockout
             /\ ev.lockedOut

\* a count of 3 is dropped by a violation 15 minutes later
C7_Witness ==
  /\ ev.op = "handleHomeworkRequest"
  /\ ev.prev.attempts = 3 /\ ev.prev.lockedUntil = Null
  /\ ev.at - ev.prev.lastAttempt > TenMinutes
  /\ ev.response \in REFUSAL_RESPONSES.first
  /\ userState[ev.userId].attempts = 1


AllRefusalTexts ==
  {STILL_LOCKED} \cup UNION {REFUSAL_RESPONSES[tier] :
                               tier \in {"first", "second", "third", "lockout"}}

Called(e, call) == \E k \in 1..Len(e.calls) : e.calls[k] = call

\* C2: when handleChat handles a message of a user whose isLockedOut check
\* was false and isHomeworkRequest(message) is true, it calls
\* handleHomeworkRequest exactly once and returns its reply; it calls neither
\* parseIntentWithLLM nor any LMS operation, whether or not the language
\* model is available.
C2_GateRefusesWithoutNLU ==
  (ev.op = "handleChat" /\ ~ev.lockedOutCheck /\ homeworkOf[ev.message]) =>
    /\ ev.calls = <<"isLockedOut", "isHomeworkRequest", "handleHomeworkRequest">>
    /\ ev.nlu = "none" /\ ev.llmIntent = "none"
    /\ ev.response.message \in AllRefusalTexts
    /\ ev.response.data = "none" /\ ~ev.response.error

\* with the language model available, a message matching the gate was refused
C2_Witness ==
  /\ llmAvailable
  /\ ev.op = "handleChat" /\ ~ev.lockedOutCheck /\ homeworkOf[ev.message]
  /\ Called(ev, "handleHomeworkRequest")

\* C3: when isLockedOut is true as a message arrives, the reply is the
\* still-locked reply with lockedOut true, whatever the message says, and
\* neither the language model, nor the classifier, nor the LMS is called.
C3_LockedOutReplyIsStillLocked ==
  (ev.op = "handleChat" /\ ev.lockedOutCheck) =>
    /\ ev.response.message = STILL_LOCKED
    /\ ev.response.lockedOut
    /\ ev.calls = <<"isLockedOut", "handleHomeworkRequest">>

\* C8: a user's RefusalState changes only in a step that handles a message
\* matching the Safety Gate, or one the language model called "blocked", for
\* a user who was not locked out when the message arrived; every other step
\* leaves it as it is.
C8_OnlyViolationsChangeState ==
  [][ \A u \in Users :
        StateOf(userState', u) # StateOf(userState, u) =>
          /\ ev'.op = "handleChat" /\ ev'.userId = u
          /\ ~ev'.lockedOutCheck
          /\ homeworkOf[ev'.message] \/ ev'.llmIntent = "blocked" ]_vars

\* C9: whatever messages are sent, a user who is locked out is later not
\* locked out, provided time keeps advancing.
C9_LockoutEnds ==
  \A u \in ChatUsers :
    isLockedOut(userState, u, now) ~> ~isLockedOut(userState, u, now)

\* a lockout has ended, the last message handled having arrived during it
C9_Witness ==
  \E u \in ChatUsers :
    /\ HasState(userState, u)
    /\ userState[u].lockedUntil # Null /\ now >= userState[u].lockedUntil
    /\ ev.op = "handleChat" /\ ev.userId = u /\ ev.lockedOutCheck

NLUFailed(nlu) == nlu \in ChatFailures \cup {"malformed"}

\* what handleKeywordIntent answers to `message`
KeywordResponses(message, lmsFailed) ==
  LET parsed == parsedOf[message]
  IN CASE parsed.type \in DataIntents ->
            IF lmsFailed THEN {ErrorResponse}
            ELSE {FormattedResponse(parsed.type, parsed.dateRange)}
       [] parsed.type = "help" -> {TextResponse(getHelpMessage(llmAvailable))}
       [] parsed.type = "greeting" -> {TextResponse(r) : r \in GREETING_RESPONSES}
       [] OTHER -> {TextResponse(r) : r \in UNKNOWN_RESPONSES}

\* C10: when the chat completion fails (a non-2xx status, a body or a reply
\* that is not JSON, a timeout, a network error), parseIntentWithLLM does not
\* throw and returns intent "unknown" with dateRange, analysis and response
\* null; handleChat then answers as the Deterministic Classifier does, and
\* the reply carries no error on account of that failure.
C10_NLUFailureFallsBack ==
  /\ \A outcome \in ChatOutcomes :
       (outcome.kind \in ChatFailures \/ outcome.content.json = "malformed") =>
         parseIntentWithLLM(outcome) = UnknownLLMIntent
  /\ (ev.op = "handleChat" /\ NLUFailed(ev.nlu)) =>
       /\ ev.llmIntent = "unknown"
       /\ Called(ev, "handleKeywordIntent")
       /\ ev.response \in KeywordResponses(ev.message, ev.lmsFailed)
       /\ ev.response.error => ev.lmsFailed

\* the chat completion timed out and the grades question was still answered
C10_Witness ==
  /\ ev.op = "handleChat" /\ ev.nlu = "timeout"
  /\ ev.response.message = "formatGradesResponse"
  /\ ~ev.response.error

\* C11: a chat-completion call of parseIntentWithLLM that has not answered
\* within the timeout (30 s by default) is aborted and handled as a reply
\* that is no JSON is (parseIntentWithLLM gives unknown), so no request
\* waits on the language model for longer than the timeout.
C11_NoWaitBeyondTimeout ==
  /\ parseIntentWithLLM([kind |-> "timeout", content |-> [json |-> "none"]])
       = parseIntentWithLLM([kind |-> "ok", content |-> [json |-> "malformed"]])
  /\ \A req \in BagToSet(reqs) :
       req.pc = "nlu" => now - req.since <= DEFAULT_TIMEOUT_MS

\* what handleChat does with `message` when the language model is marked
\* unavailable (server.ts:311-313): the calls after the Safety Gate
UnavailableCalls(message) ==
  LET parsed == parsedOf[message]
  IN <<"handleKeywordIntent">> \o
       (IF parsed.type \in DataIntents THEN <<LmsOpsFor(parsed.type)>> ELSE <<>>)

\* and the responses it can give
UnavailableResponses(message, lmsFailed) ==
  LET parsed == parsedOf[message]
  IN CASE parsed.type \in DataIntents ->
            IF lmsFailed THEN {ErrorResponse}
            ELSE {FormattedResponse(parsed.type, parsed.dateRange)}
       [] parsed.type = "help" -> {TextResponse(getHelpMessage(FALSE))}
       [] parsed.type = "greeting" -> {TextResponse(r) : r \in GREETING_RESPONSES}
       [] OTHER -> {TextResponse(r) : r \in UNKNOWN_RESPONSES}

\* handleChat went on as it does with the language model unavailable: same
\* intent handler, same date range, same LMS operations, no RefusalState call
SameDispatchAsUnavailable(e) ==
  LET tail == UnavailableCalls(e.message)
  IN /\ e.intent = parsedOf[e.message].type
     /\ e.dateRange = parsedOf[e.message].dateRange
     /\ Len(e.calls) = 4 + Len(tail)
     /\ SubSeq(e.calls, 1, 4) = <<"isLockedOut", "isHomeworkRequest",
                                  "parseIntentWithLLM", "handleLLMIntent">>
     /\ SubSeq(e.calls, 5, Len(e.calls)) = tail

\* C12 as stated: for every message, handleChat with the language model
\* marked available and the NLU call failing gives the same response (same
\* intent handler, date range, LMS operations, RefusalState effect) as with
\* the language model unavailable.
C12_SameAsUnavailable ==
  (ev.op = "handleChat" /\ llmAvailable /\ NLUFailed(ev.nlu)) =>
    /\ SameDispatchAsUnavailable(ev)
    /\ ev.response \in UnavailableResponses(ev.message, ev.lmsFailed)

\* C12, amended: the same intent handler, date range and LMS operations, and
\* the same response except for a help message, whose text is the one
\* getHelpMessage gives while the language model is marked available.
C12_SameAsUnavailableButHelp ==
  (ev.op = "handleChat" /\ llmAvailable /\ NLUFailed(ev.nlu)) =>
    /\ SameDispatchAsUnavailable(ev)
    /\ IF parsedOf[ev.message].type = "help"
       THEN ev.response = TextResponse(getHelpMessage(TRUE))
       ELSE ev.response \in UnavailableResponses(ev.message, ev.lmsFailed)

\* "what's due this week?" answered as due_soon although every NLU call fails
C12_Witness ==
  /\ ev.op = "handleChat" /\ llmAvailable /\ NLUFailed(ev.nlu)
  /\ ev.message = "what's due this week?"
  /\ ev.intent = "due_soon"
  /\ ev.response = FormattedResponse("due_soon", parsedOf[ev.message].dateRange)

\* the step in which handleChat returns after its NLU call gave `intent`
NLUDispatchStep(intent) ==
  /\ \E req \in BagToSet(reqs) :
       /\ req.pc = "nlu" /\ reqs' = reqs (-) One(req)
       /\ ev'.op = "handleChat" /\ ev'.message = req.message
  /\ ev'.llmIntent = intent

\* C13: when the NLU call returns blocked for a message that passed the
\* Safety Gate, handleChat calls handleHomeworkRequest(userId) exactly once
\* and returns its response and lockedOut, not the text the language model
\* supplied; it fetches nothing from the LMS and does not dispatch on the
\* Deterministic Classifier.
C13_BlockedGoesToHAL ==
  [][ NLUDispatchStep("blocked") =>
        LET r == handleHomeworkRequest(userState, ev'.userId, now')
        IN /\ ev'.calls = <<"isLockedOut", "isHomeworkRequest", "parseIntentWithLLM",
                            "handleLLMIntent", "handleHomeworkRequest">>
           /\ userState' = r.st
           /\ ev'.response \in
                {ChatResponse(text, "none", r.lockedOut, FALSE, NoDateRange) :
                   text \in ResponsesOf(r.tier)}
           /\ ev'.response.message # ev'.llm.response
           /\ ~homeworkOf[ev'.message] ]_vars

\* a message the Safety Gate let through was refused by HAL on the NLU's
\* blocked, with a first-tier text
C13_Witness ==
  /\ ev.op = "handleChat" /\ ev.llmIntent = "blocked" /\ ~ev.lockedOutCheck
  /\ ev.llm.response = "I can't help with that."
  /\ ev.response.message \in REFUSAL_RESPONSES["first"]
  /\ HasState(userState, ev.userId) /\ userState[ev.userId].attempts = 1

\* the intents the NLU resolver can name, unknown and blocked apart
NLUIntents == DataIntents \cup {"analysis", "help", "greeting"}

\* handleLLMIntent's switch (server.ts:335-417): the calls handleChat makes
\* after handleLLMIntent when it dispatches on e.llmIntent, and its responses
NLUDispatchCalls(e) ==
  CASE e.llmIntent \in DataIntents -> {<<LmsOpsFor(e.llmIntent)>>}
    [] e.llmIntent = "analysis" ->
         IF e.lmsFailed THEN {<<LmsOpsFor("analysis")>>}
         ELSE {<<LmsOpsFor("analysis"), "performAnalysis">>}
    [] OTHER -> {<<>>}

NLUDispatchResponses(e) ==
  CASE e.llmIntent \in DataIntents ->
         IF e.lmsFailed THEN {ErrorResponse}
         ELSE {FormattedResponse(e.llmIntent, e.dateRange)}
    [] e.llmIntent = "analysis" ->
         IF e.lmsFailed THEN {ErrorResponse}
         ELSE {TextResponse("the assistant's answer"), TextResponse(ANALYSIS_FAILURE)}
    [] e.llmIntent = "help" -> {TextResponse(getHelpMessage(llmAvailable))}
    [] e.llmIntent = "greeting" ->
         IF e.llm.response # "null" THEN {TextResponse(e.llm.response)}
         ELSE {TextResponse(r) : r \in GREETING_RESPONSES}

\* handleChat answered by dispatching on the NLU's intent
DispatchedOnNLUIntent(e) ==
  /\ e.intent = e.llmIntent
  /\ \E tail \in NLUDispatchCalls(e) :
       /\ Len(e.calls) = 4 + Len(tail)
       /\ e.calls = <<"isLockedOut", "isHomeworkRequest", "parseIntentWithLLM",
                      "handleLLMIntent">> \o tail
  /\ e.response \in NLUDispatchResponses(e)

\* C14 as stated: whenever the NLU resolver returns grades, missing, zeros,
\* due_soon, analysis, help or greeting, handleChat returns the result of
\* dispatching on that intent and the Deterministic Classifier's intent type
\* does not choose the response.
C14_NLUIntentDispatched ==
  (ev.op = "handleChat" /\ ev.llmIntent \in NLUIntents) => DispatchedOnNLUIntent(ev)

\* C14, amended: so it is, except for analysis returned without an analysis
\* request: then handleLLMIntent returns null and handleKeywordIntent
\* answers from the Deterministic Classifier's intent type.
C14_NLUIntentDispatchedButBareAnalysis ==
  (ev.op = "handleChat" /\ ev.llmIntent \in NLUIntents) =>
    IF ev.llmIntent = "analysis" /\ ~ev.llm.analysis
    THEN /\ ev.intent = parsedOf[ev.message].type
         /\ ev.response \in KeywordResponses(ev.message, ev.lmsFailed)
    ELSE DispatchedOnNLUIntent(ev)

\* "hello", a greeting to the Deterministic Classifier, answered with the
\* grades because the NLU resolver said grades
C14_Witness ==
  /\ ev.op = "handleChat" /\ ev.message = "hello"
  /\ parsedOf[ev.message].type = "greeting"
  /\ ev.llmIntent = "grades"
  /\ ev.response = FormattedResponse("grades", NoDateRange)

\* C15: when an LMS operation fails during dispatch, on the NLU path or on
\* the deterministic path, handleChat returns (it does not throw) the
\* connectivity-failure message with error true and no data; it makes no
\* further call (no retry, no other resolution step) and changes no user's
\* RefusalState.
C15_LMSFailureIsConnectivityError ==
  [][ \A req \in BagToSet(reqs) :
        (req.pc = "lms" /\ reqs' = reqs (-) One(req) /\ ev'.lmsFailed) =>
          /\ ev'.op = "handleChat" /\ ev'.message = req.message
          /\ ev'.response =
               ChatResponse("I'm having trouble connecting to Canvas right now. Please try again later.",
                            "none", FALSE, TRUE, NoDateRange)
          /\ ev'.calls = req.calls
          /\ userState' = userState ]_vars

\* an LMS operation failed on the NLU path for a user HAL has refused once
C15_Witness ==
  /\ ev.op = "handleChat" /\ ev.lmsFailed /\ ev.response.error
  /\ ev.llmIntent = "grades"
  /\ Len(ev.calls) = 5 /\ ev.calls[5] = LmsOpsFor("grades")
  /\ HasState(userState, ev.userId) /\ userState[ev.userId].attempts = 1

\* intent.ts:108-112  the NLU's range is extractDateRange of the dateFilter
\* text, for every reply with a non-empty dateFilter string
NLURangeIsReparsedFilter ==
  \A outcome \in ChatOutcomes :
    (/\ outcome.kind = "ok" /\ outcome.content.json = "object"
     /\ outcome.content.dateFilter.t = "string"
     /\ outcome.content.dateFilter.v # "") =>
      llmIntentOf[outcome].dateRange =
        extractDateRange(CharsOf(outcome.content.dateFilter.v))

TomorrowRange == extractDateRange(CharsOf("tomorrow"))

\* C16: in the dispatch of an NLU-resolved intent the date range used is the
\* NLU's (extractDateRange of its dateFilter text) whenever that is not null,
\* and otherwise extractDateRange of the original message; the original
\* message's range is never used when the NLU's is not null.
C16_NLURangeFirst ==
  /\ NLURangeIsReparsedFilter
  /\ (ev.op = "handleChat" /\ ev.llmIntent \in NLUIntents
        /\ ev.intent = ev.llmIntent) =>
       LET used == IF ev.llm.dateRange # NoDateRange THEN ev.llm.dateRange
                   ELSE parsedOf[ev.message].dateRange
       IN /\ ev.dateRange = used
          /\ (ev.llmIntent \in DataIntents \ {"grades"} /\ ~ev.lmsFailed) =>
               ev.response.dateContext = used

\* "what's due this week?" answered for tomorrow, the NLU's dateFilter
C16_Witness ==
  /\ ev.op = "handleChat" /\ ev.message = "what's due this week?"
  /\ ev.llmIntent = "due_soon"
  /\ ev.llm.dateRange = TomorrowRange
  /\ parsedOf[ev.message].dateRange \notin {NoDateRange, ev.llm.dateRange}
  /\ ev.response.dateContext = ev.llm.dateRange

\* "what's due this week?" answered for this week, the NLU's dateFilter
\* "soon" being no date to extractDateRange
C16_WitnessFallback ==
  /\ ev.op = "handleChat" /\ ev.message = "what's due this week?"
  /\ ev.llmIntent = "due_soon" /\ ev.llm.dateRange = NoDateRange
  /\ ev.response.dateContext = parsedOf[ev.message].dateRange
  /\ ev.response.dateContext # NoDateRange

\* the bodies the handler is to answer with status 400: no JSON, no message,
\* an empty message, a message that is no string
BadBody(body) ==
  \/ body.json = "invalid"
  \/ /\ body.json = "object"
     /\ \/ body.message = JUndefined
        \/ body.message = JStr("")
        \/ body.message.t # "string"

BadBodies == {body \in Bodies : BadBody(body)}

\* the bodies that have a message and no userId
UnnamedBodies ==
  {body \in Bodies \ BadBodies : body.json = "object" /\ body.userId = JUndefined}

\* C17: a POST to /api/chat with text that is no JSON, with no message, an
\* empty message or a message that is no string is answered with status 400
\* and does not reach handleChat: no RefusalState is created or changed and
\* no collaborator is called.  A body with a message and no userId is
\* processed under "default-user".
C17_BadBodiesRejected ==
  [][ /\ \A body \in BadBodies :
           Handler(body) =>
             /\ ev'.op = "handler" /\ ev'.status = 400
             /\ UNCHANGED <<userState, reqs>>
      /\ \A body \in UnnamedBodies :
           ((ev' # ev \/ reqs' # reqs) /\ Handler(body)) =>
             \/ /\ ev'.op = "handleChat" /\ ev'.userId = "default-user"
                /\ ev'.message = body.message.v /\ ev'.sentUserId = JUndefined
                /\ \A u \in DOMAIN userState' \ DOMAIN userState : u = "default-user"
             \/ \E req \in BagToSet(reqs') :
                  /\ CopiesIn(req, reqs') > CopiesIn(req, reqs)
                  /\ req.userId = "default-user"
                  /\ req.sentUserId = JUndefined /\ req.message = body.message.v ]_vars

\* a body with an empty message has been answered 400, the map holding the
\* state of a user HAL has refused
C17_Witness ==
  /\ ev.op = "handler" /\ ev.status = 400
  /\ ev.body.json = "object" /\ ev.body.message = JStr("")
  /\ HasState(userState, "test-user") /\ userState["test-user"].attempts = 1
  /\ ~HasState(userState, "default-user")

\* a message sent without userId has been refused under "default-user"
C17_WitnessDefaultUser ==
  /\ ev.op = "handleChat" /\ ev.sentUserId = JUndefined
  /\ ev.userId = "default-user" /\ ev.message = "write my essay"
  /\ HasState(userState, "default-user") /\ userState["default-user"].attempts = 1

\* C18: isLockedOut(userId) is a pure read: for every userId, one never
\* seen before included, the call leaves the map of RefusalStates as it was
\* (no entry created, no field modified), and it returns true exactly when
\* an entry exists with now < lockedUntil.
C18_IsLockedOutPureRead ==
  [][ \A u \in Users :
        IsLockedOutCall(u) =>
          /\ userState' = userState
          /\ ev'.result = /\ HasState(userState, u)
                          /\ userState[u].lockedUntil # Null
                          /\ now < userState[u].lockedUntil ]_vars

\* two still-locked replies to the same user in one lockout window, the
\* second (ev') at a later clock reading than the first (ev)
StillLockedPair ==
  /\ ev.op = "handleHomeworkRequest" /\ ev'.op = "handleHomeworkRequest"
  /\ ev'.userId = ev.userId
  /\ ev.response = STILL_LOCKED /\ ev'.response = STILL_LOCKED
  /\ ev'.prev.lockedUntil = ev.prev.lockedUntil
  /\ ev.at < ev'.at

\* C19 as stated: within one lockout window, still-locked replies at
\* t1 < t2 < lockedUntil report strictly decreasing remaining seconds.
C19_StrictlyDecreasing ==
  [][ StillLockedPair => ev'.remainingSeconds < ev.remainingSeconds ]_vars

\* C19, amended: the reported value is ceil((lockedUntil - now) / 1000); it
\* never increases from one reply to a later one, and it decreases strictly
\* when the two replies are at least one second apart.
C19_NonIncreasing ==
  [][ StillLockedPair =>
        /\ (ev'.remainingSeconds - 1) * 1000 < ev'.prev.lockedUntil - ev'.at
        /\ ev'.prev.lockedUntil - ev'.at <= ev'.remainingSeconds * 1000
        /\ ev'.remainingSeconds <= ev.remainingSeconds
        /\ ev'.at - ev.at >= 1000 => ev'.remainingSeconds < ev.remainingSeconds ]_vars

\* a still-locked reply 1200 ms into the lockout reports 299 seconds
C19_Witness ==
  /\ ev.op = "handleHomeworkRequest" /\ ev.response = STILL_LOCKED
  /\ ev.at < ev.prev.lockedUntil
  /\ ev.prev.lockedUntil - ev.at = LOCKOUT_DURATION_MS - 3 * FineTick
  /\ ev.remainingSeconds = 299

\* the order in which parseIntent tries its rules
RuleOrder ==
  <<"percentage", "course_grades", "grades", "missing", "zeros", "priority",
    "risk", "due_soon", "help", "greeting">>

RuleHolds(type, lower) ==
  CASE type = "percentage" -> PercentageRule(lower)
    [] type = "course_grades" -> CourseGradesRule(lower)
    [] type = "grades" -> GradesRule(lower)
    [] type = "missing" -> MissingRule(lower)
    [] type = "zeros" -> ZerosRule(lower)
    [] type = "priority" -> PriorityRule(lower)
    [] type = "risk" -> RiskRule(lower)
    [] type = "due_soon" -> DueSoonRule(lower)
    [] type = "help" -> HelpRule(lower)
    [] type = "greeting" -> GreetingRule(lower)

\* the first rule in RuleOrder that holds, unknown when none does
FirstRule(lower) ==
  LET held == {k \in DOMAIN RuleOrder : RuleHolds(RuleOrder[k], lower)}
  IN IF held = {} THEN "unknown"
     ELSE RuleOrder[CHOOSE k \in held : \A j \in held : k <= j]

PercentageExample == CharsOf("what percentage of my work is missing?")

\* C20: parseIntent applies its rules in the order percentage, course_grades,
\* grades, missing, zeros, priority, risk, due_soon, help, greeting, the
\* first that holds winning, unknown when none holds; a message satisfying
\* the percentage rule resolves to percentage even when it contains
\* "missing", as "what percentage of my work is missing?" does.
C20_FirstRuleWins ==
  ev.op = "parseIntent" =>
    LET lower == toLowerCase(ev.message)
    IN /\ ev.parsed.type = FirstRule(lower)
       /\ PercentageRule(lower) => ev.parsed.type = "percentage"
       /\ ev.message = PercentageExample => ev.parsed.type = "percentage"

\* the example has been classified: percentage, the missing rule holding too
C20_Witness ==
  /\ ev.op = "parseIntent" /\ ev.message = PercentageExample
  /\ MissingRule(toLowerCase(ev.message))
  /\ ev.parsed.type = "percentage"

\* C21: every request the documentation lists as blocked is a homework
\* request to isHomeworkRequest ("Write my essay", "Solve this problem",
\* "Help me with my homework", "help me do my homework", "what's the
\* answer"), so handleChat answers each with a HAL refusal.
C21_DocumentedBlockedRefused ==
  (ev.op = "handleChat" /\ ev.message \in BlockedQueries) =>
    /\ homeworkOf[ev.message]
    /\ ev.response.message \in AllRefusalTexts

\* the local calendar year an instant lies in
InYear(t, y) == t # NullDate /\ t # NaN /\ getFullYear(t) = y

\* C22: for a text that contains a four-digit year Y between 2000 and 2099,
\* extractDateRange returns the range described "Y" that covers the whole
\* local calendar year: isWithinRange is true of every instant from 1 January
\* Y 00:00:00.000 through 31 December Y 23:59:59.999 and false of every other
\* instant.
C22_YearRangeIsWholeYear ==
  \A y \in QueryYears :
    (/\ ev.op = "isWithinRange"
     /\ includes(ev.query, NumberToString(y))) =>
       /\ ev.range.description = NumberToString(y)
       /\ ev.within = InYear(ev.date, y)

\* C23: every DateRange that extractDateRange returns, for every text and
\* every current date and time, has start <= end (the week, month and
\* semester ranges and "next N days" with N = 0 included).
C23_StartNotAfterEnd ==
  (ev.op = "extractDateRange" /\ ev.range # NullRange) =>
    DateLE(ev.range.start, ev.range.end)

\* the same of the ranges whose end is a valid Date
C23_StartNotAfterValidEnd ==
  (ev.op = "extractDateRange" /\ ev.range # NullRange /\ ev.range.end # NaN) =>
    DateLE(ev.range.start, ev.range.end)

ThisSemester == <<"t", "h", "i", "s", " ", "s", "e", "m", "e", "s", "t", "e", "r">>
LastSemester == <<"l", "a", "s", "t", " ", "s", "e", "m", "e", "s", "t", "e", "r">>
\* the range runs from 1 August through 31 December of year y
IsFallOf(range, y) ==
  range.start.day = MakeDay(y, 7, 1) /\ range.end.day = MakeDay(y, 11, 31)
\* the range runs from 1 January through 31 May of year y
IsSpringOf(range, y) ==
  range.start.day = MakeDay(y, 0, 1) /\ range.end.day = MakeDay(y, 4, 31)
\* the place of a semester's range in the sequence spring y, fall y,
\* spring y + 1, ...
SemesterIndex(range) ==
  2 * getFullYear(range.start) + (IF getMonth(range.start) = 7 THEN 1 ELSE 0)

\* C30, first half: "this semester" is the fall of the current year in
\* August to December, the spring of the current year in January to May and
\* the spring of the next year in June and July.
C30_ThisSemester ==
  (ev.op = "extractDateRange" /\ ev.query = ThisSemester) =>
    LET m == getMonth(ev.at)
        y == getFullYear(ev.at)
    IN IF m >= 7 THEN IsFallOf(ev.range, y)
       ELSE IF m <= 4 THEN IsSpringOf(ev.range, y)
       ELSE IsSpringOf(ev.range, y + 1)

\* C30: for every current month "this semester" is as C30_ThisSemester says,
\* and "last semester" is the semester immediately before it: no fall or
\* spring semester lies between the two ranges.
C30_LastSemesterPrecedesThis ==
  /\ C30_ThisSemester
  /\ (ev.op = "extractDateRange" /\ ev.query = LastSemester) =>
       SemesterIndex(ev.range) = SemesterIndex(dateRangeOf[ThisSemester][ev.at]) - 1

\* C24: between calls of handleHomeworkRequest and isLockedOut at
\* non-decreasing times every RefusalState has attempts in {0, 1, 2, 3}, and
\* whenever the user is locked out (lockedUntil is not null and the time is
\* before it) attempts is 0 and lockedUntil is lastAttempt + 5 minutes.
C24_RefusalStateShape ==
  \A u \in DOMAIN userState :
    /\ userState[u].attempts \in 0..3
    /\ (userState[u].lockedUntil # Null /\ now < userState[u].lockedUntil) =>
         /\ userState[u].attempts = 0
         /\ userState[u].lockedUntil = userState[u].lastAttempt + FiveMinutes

\* a user is locked out and a later call has found the lock standing
C24_Witness ==
  /\ ev.op = "handleHomeworkRequest"
  /\ ev.response = STILL_LOCKED
  /\ userState[ev.userId].lockedUntil # Null
  /\ now < userState[ev.userId].lockedUntil
\* a user with three attempts on record
C24_WitnessThree == \E u \in DOMAIN userState : userState[u].attempts = 3

\* the attempts a violation handled when the clock reads t starts from
AttemptsBefore(st, u, t) ==
  IF ~HasState(st, u) \/ t - st[u].lastAttempt > TenMinutes THEN 0
  ELSE st[u].attempts

\* the step returns a handleChat request of u with a reply of one of the
\* four tiers: a violation recorded while u was not locked out
ViolationRecorded(u) ==
  /\ (ev' # ev \/ userState' # userState)
  /\ ev'.op = "handleChat" /\ ev'.userId = u
  /\ ev'.response.message \in AllRefusalTexts \ {STILL_LOCKED}

\* C25: however concurrent handleChat requests of one user interleave,
\* every violation recorded while the user is not locked out moves attempts
\* on by exactly one from the value the violation before it left, and gets
\* the tier of that count; so of four violating requests of a fresh user
\* within the reset window one each gets the first, the second, the third
\* and the lockout reply, in the order their violations are recorded.
C25_NoLostUpdate ==
  [][ \A u \in ChatUsers :
        ViolationRecorded(u) =>
          LET a1 == AttemptsBefore(userState, u, now') + 1
          IN /\ TierOfResponse(ev'.response.message) = TierOf(a1)
             /\ userState'[u].attempts = IF a1 = 4 THEN 0 ELSE a1
             /\ ev'.response.lockedOut = (a1 = 4) ]_vars

\* a request that waited on the language model while three violations of the
\* same user were recorded is the fourth and gets the lockout
C25_Witness ==
  /\ ev.op = "handleChat" /\ ev.llmIntent = "blocked" /\ ~ev.lockedOutCheck
  /\ ev.response.message \in REFUSAL_RESPONSES["lockout"]
  /\ userState[ev.userId].attempts = 0
  /\ userState[ev.userId].lockedUntil = now + FiveMinutes

\* C26 as stated: no request returns LMS data for a user at a moment when
\* that user is locked out; a request that passed the isLockedOut check and
\* waits on the language model or the LMS does not deliver data once another
\* request's fourth violation has locked the user out.
C26_NoDataWhileLocked ==
  (ev.op = "handleChat" /\ ev.response.data # "none") =>
    ~isLockedOut(userState, ev.userId, now)

\* C26, amended: no request that found the user locked out on arrival
\* returns LMS data; a request that passed the isLockedOut check before the
\* lockout began is not checked again and may deliver its data during it.
C26_NoDataForLockedArrival ==
  (ev.op = "handleChat" /\ ev.response.data # "none") => ~ev.lockedOutCheck

\* a request that passed the check has delivered LMS data during a lockout
C26_Witness ==
  /\ ev.op = "handleChat" /\ ev.response.data # "none" /\ ~ev.lockedOutCheck
  /\ isLockedOut(userState, ev.userId, now)

AwaitsLMS == \E req \in BagToSet(reqs) : req.pc = "lms"

\* C27: every handleChat request that awaits the LMS returns in the end,
\* even if the LMS call never completes: the call is bounded by a timeout,
\* after which the request returns the connectivity-failure response.
C27_LMSWaitEnds == AwaitsLMS ~> ~AwaitsLMS

\* no timer is armed for a request that awaits the LMS
C27_NoTimerOnLMS ==
  \A req \in BagToSet(reqs) : req.pc = "lms" => req.timer = Null

\* C28: when the language model selected the intent analysis and the chat
\* completion of performAnalysis fails, the chat response is the generic
\* connectivity-failure response with error true, the one an LMS failure
\* gives.
C28_AnalysisFailureIsConnectivityError ==
  [][ \A req \in BagToSet(reqs) :
        (req.pc = "analysis" /\ AnalysisReturns(req, FALSE)) =>
          ev'.response = ErrorResponse ]_vars

\* the request was answered by handleKeywordIntent
ByKeywordIntent ==
  /\ ev.op = "handleChat" /\ ~ev.lockedOutCheck /\ ~homeworkOf[ev.message]
  /\ ev.llmIntent \in {"none", "unknown"}

\* C29: handleKeywordIntent dispatches every intent other than unknown that
\* parseIntent can return (grades, course_grades, percentage, missing, zeros,
\* priority, risk, due_soon, help, greeting) to a handler for that intent;
\* a reply from the unknown pool is given only when parseIntent returns
\* unknown.
C29_EveryIntentHasHandler ==
  ByKeywordIntent =>
    (ev.response.message \in UNKNOWN_RESPONSES <=> parsedOf[ev.message].type = "unknown")

\* the same of the intents the switch of handleKeywordIntent has a case for
C29_CasesOfTheSwitch ==
  (ByKeywordIntent /\ parsedOf[ev.message].type \in DataIntents \cup {"help", "greeting"}) =>
    ev.response.message \notin UNKNOWN_RESPONSES

====
